---- MODULE Spec2Model ----
(***************************************************************************)
(* Seoul crime / population reconciliation pipeline of the mlservice:      *)
(* KakaoMapSingleton.geocode, SeoulMethod.station_to_district,             *)
(* SeoulService._merge_duplicate_gu and SeoulService.preprocess.           *)
(*                                                                         *)
(* Python strings are sequences of one-character tokens.  The module is    *)
(* ASCII, so the Hangul syllables the code tests for are written as        *)
(*   SEO = '서'   GU = '구'   UL = '울'   JONG = '종'   RO = '로'             *)
(*   GA = any other syllable ('가')                                        *)
(* and None is the one-element tuple <<"None">>, which is no string.       *)
(***************************************************************************)
EXTENDS Integers, Sequences, FiniteSets, TLC

VARIABLES
    op,                 \* the operation that has run ("idle" before any)
    station_name,       \* argument of station_to_district
    valid_districts,    \* the 기관명 column of cctv.csv, as a set
    upstream,           \* upstream[i]: the HTTP answer to the i-th request
    queries,            \* the queries sent so far to the keyword-search API
    returned,           \* what the operation returned or raised
    crime_csv,          \* rows of crime.csv
    pop_xls,            \* rows of pop.xls
    crime_df_with_pop,  \* the reconciled table preprocess stores and writes
    pop_clean,          \* the cleaned population table preprocess stores
    df,                 \* argument of _merge_duplicate_gu and of generate_heatmap
    environ,            \* os.environ: the two API key variables
    dotenv,             \* the same two variables as the root .env file gives them
    _env_loaded,        \* KakaoMapSingleton._env_loaded
    _instance,          \* KakaoMapSingleton._instance
    constructions,      \* the KakaoMapSingleton() calls made so far
    arg_name,           \* argument of normalize_gu_name
    arg_val,            \* argument of str_to_float
    rate_column,        \* a rate column handed to the normalization step
    cctv_csv,           \* rows of cctv.csv
    files,              \* the files present in the data directory
    save_writable,      \* whether save/crime_with_gu.csv can be written
    crime_with_gu_csv,  \* the table save/crime_with_gu.csv holds
    dataset_cctv,       \* the CCTV table preprocess stores
    cctv_pop_df,        \* the CCTV-population merge of the last preprocess
    processed_dataset,  \* TitanicService.processed_dataset
    train_labels,       \* TitanicService.train_labels
    models,             \* TitanicService.models, in insertion order
    X_test,             \* TitanicService.X_test and y_test
    _sentiment_service, \* the module-level _sentiment_service of koelectra_service
    model_dir,          \* what the KoELECTRA model directory allows to load
    calls,              \* the calls made so far to the Titanic or KoELECTRA service
    request_pc,         \* request_pc[r]: where the handler of request r stands
    running,            \* the request whose handler holds the event loop, 0 if none
    request_tables,     \* request_tables[r]: the tables request r loaded
    responses           \* responses[r]: the response sent to request r

\* The state of the KakaoMapSingleton class and of the process environment
kakao_vars == <<environ, dotenv, _env_loaded, _instance, constructions>>

\* The state of the Titanic service, of the KoELECTRA service and of the
\* requests in flight
service_vars == <<processed_dataset, train_labels, models, X_test, _sentiment_service,
                  model_dir, calls, request_pc, running, request_tables, responses>>

\* The data directory, the save directory and what preprocess keeps of them
disk_vars == <<cctv_csv, files, save_writable, crime_with_gu_csv, dataset_cctv,
               cctv_pop_df>>

vars == <<op, station_name, valid_districts, upstream, queries, returned,
          crime_csv, pop_xls, crime_df_with_pop, pop_clean, df, kakao_vars,
          arg_name, arg_val, rate_column, disk_vars, service_vars>>

----------------------------------------------------------------------------
(* Characters and Python string primitives                                 *)

SEO == "seo"
GU == "gu"
UL == "ul"
GA == "ga"
JONG == "jong"
RO == "ro"
SP == " "
DQ == "dquote"
SQ == "squote"
None == <<"None">>

\* [가-힣]
IsHangul(c) == c \in {SEO, GU, UL, GA, JONG, RO}

\* str.endswith(c) for a one-character suffix
endswith(s, c) == Len(s) > 0 /\ s[Len(s)] = c

\* str.replace(old, new) for one-character old and new: EVERY occurrence
replace(s, old, new) == [i \in 1..Len(s) |-> IF s[i] = old THEN new ELSE s[i]]

\* str.replace(old, ''): every occurrence removed
remove(s, old) == SelectSeq(s, LAMBDA c : c # old)

\* s[:-1]
DropLast(s) == IF Len(s) = 0 THEN s ELSE SubSeq(s, 1, Len(s) - 1)

\* c in s, for one character
HasChar(s, c) == \E i \in 1..Len(s) : s[i] = c

\* The sequence s as an explicit tuple: a sequence written as a function
\* constructor is enumerated once here instead of at every use.
AsTuple(s) == s \o <<>>

\* All strings over alphabet A of length at most n
StringsUpTo(A, n) == UNION {[1..k -> A] : k \in 0..n}

----------------------------------------------------------------------------
(* Bounds                                                                  *)

MaxNameLen == 3
MaxAddrLen == 3
MaxMergeRows == 2
MaxStations == 2
MaxPopRows == 2
MaxConstructions == 3
MaxCellLen == 3

----------------------------------------------------------------------------
(* KakaoMapSingleton.geocode                                               *)

\* What a call returns or raises.  message is the text an exception carries.
Return(v) == [kind |-> "return", value |-> v, exc |-> "none", message |-> <<>>]
Raise(e, m) == [kind |-> "raise", value |-> None, exc |-> e, message |-> m]

\* requests.exceptions.RequestException and its subclasses
IsRequestException(e) ==
    e \in {"ConnectionError", "HTTPError", "JSONDecodeError(RequestException)"}

\* float(doc.get('y', 0)): the coordinate strings of the model; any other
\* string makes float() raise ValueError.
FloatRaises(s) == s \notin {"37", "127"}

ParseFloat(s) == IF s = "37" THEN 37 ELSE 127

\* a or b
PyOr(a, b) == IF a # <<>> /\ a # None THEN a ELSE b

\* response.json(): the parsed body, or the decode error of the installed
\* requests release (a ValueError before 2.27, a RequestException since).
ResponseJson(r) ==
    IF r.body = "json" THEN Return(r) ELSE Raise(r.decode_error, <<>>)

\* response.json().get('message', 'Forbidden')
ErrorMsg(r) == IF r.message = None THEN <<"Forbidden">> ELSE r.message

\* response.raise_for_status()
RaisesForStatus(r) == r.status_code >= 400 /\ r.status_code < 600

\* The try block of geocode (lines 63-92), before its except clauses.
GeocodeTry(address, r) ==
    IF r.kind = "connection_error" THEN Raise("ConnectionError", <<>>)
    ELSE IF r.status_code = 403 THEN
        IF ResponseJson(r).kind = "raise" THEN ResponseJson(r)
        ELSE Raise("ValueError", ErrorMsg(r))
    ELSE IF RaisesForStatus(r) THEN Raise("HTTPError", <<>>)
    ELSE IF ResponseJson(r).kind = "raise" THEN ResponseJson(r)
    ELSE IF Len(r.documents) = 0 THEN Return(<<>>)
    ELSE LET doc == r.documents[1]
             address_name == PyOr(doc.address_name, doc.road_address_name)
         IN  IF FloatRaises(doc.y) THEN Raise("ValueError", <<>>)
             ELSE IF FloatRaises(doc.x) THEN Raise("ValueError", <<>>)
             ELSE Return(<< [formatted_address |-> address_name,
                             geometry |-> [location |->
                                 [lat |-> ParseFloat(doc.y),
                                  lng |-> ParseFloat(doc.x)]]] >>)

\* The except clauses of geocode (lines 94-99).
GeocodeExcept(t) ==
    IF t.kind = "return" THEN t
    ELSE IF IsRequestException(t.exc) THEN t
    ELSE Return(<<>>)

geocode(address, r) == GeocodeExcept(GeocodeTry(address, r))

----------------------------------------------------------------------------
(* SeoulMethod.station_to_district                                         *)

\* re.search(r'([가-힣]+구)', s): the leftmost match, taken greedily; None
\* when there is none.
ReMatches(s) ==
    {m \in (1..Len(s)) \X (1..Len(s)) :
        /\ m[1] < m[2]
        /\ s[m[2]] = GU
        /\ \A k \in m[1]..m[2] : IsHangul(s[k])}

\* A search that takes the last match instead of the leftmost one.
re_search_gu_last(s) ==
    IF ReMatches(s) = {} THEN None
    ELSE LET j == CHOOSE a \in {m[2] : m \in ReMatches(s)} :
                      \A b \in {m[2] : m \in ReMatches(s)} : a >= b
             i == CHOOSE a \in {m[1] : m \in {n \in ReMatches(s) : n[2] = j}} :
                      \A b \in {m[1] : m \in {n \in ReMatches(s) : n[2] = j}} : a <= b
         IN  SubSeq(s, i, j)

re_search_gu(s) ==
    IF ReMatches(s) = {} THEN None
    ELSE LET i == CHOOSE a \in {m[1] : m \in ReMatches(s)} :
                      \A b \in {m[1] : m \in ReMatches(s)} : a <= b
             j == CHOOSE a \in {m[2] : m \in {n \in ReMatches(s) : n[1] = i}} :
                      \A b \in {m[2] : m \in {n \in ReMatches(s) : n[1] = i}} : a >= b
         IN  SubSeq(s, i, j)

\* The fallback of lines 186-190 and 194-197.
NaiveRewrite(station) ==
    IF endswith(station, SEO) THEN replace(station, SEO, GU) ELSE station

\* geocode_result[0].get('address_components', []): geocode builds results
\* with the keys formatted_address and geometry only, so the default is taken
\* and the component loop of lines 168-177 has nothing to visit.
AddressComponents(result) == <<>>

\* The try block of _get_district_from_kakao_maps (lines 157-190).
KakaoTry(station, r) ==
    LET query == station \o <<SP, SEO, UL>>
        geocode_result == geocode(query, r)
    IN  IF geocode_result.kind = "raise" THEN geocode_result
        ELSE IF Len(geocode_result.value) > 0 THEN
            LET formatted_address == geocode_result.value[1].formatted_address
            IN  IF formatted_address = None THEN Raise("TypeError", <<>>)
                ELSE IF re_search_gu(formatted_address) # None
                     THEN Return(re_search_gu(formatted_address))
                     ELSE Return(NaiveRewrite(station))
        ELSE Return(NaiveRewrite(station))

\* An outcome together with the queries the call sent upstream.
Sent(o, q) == [outcome |-> o, queries |-> q]

\* The lookup without its except clause: a geocode error propagates.
kakao_maps_without_except(station, r) ==
    Sent(KakaoTry(station, r), <<station \o <<SP, SEO, UL>>>>)

\* except Exception (lines 192-197)
_get_district_from_kakao_maps(station, r) ==
    IF KakaoTry(station, r).kind = "raise"
    THEN Sent(Return(NaiveRewrite(station)), <<station \o <<SP, SEO, UL>>>>)
    ELSE Sent(KakaoTry(station, r), <<station \o <<SP, SEO, UL>>>>)

station_to_district(station, valid, r) ==
    IF endswith(station, SEO) THEN
        LET district == replace(station, SEO, GU)
        IN  IF district \in valid THEN Sent(Return(district), <<>>)
            ELSE _get_district_from_kakao_maps(station, r)
    ELSE _get_district_from_kakao_maps(station, r)

----------------------------------------------------------------------------
(* Inputs of the resolver: station names, cctv.csv districts, HTTP answers *)

Stations == StringsUpTo({SEO, GU, GA}, MaxNameLen)

\* Every short address, and two of the usual shape: '서울 가구 가' (city,
\* district, neighbourhood) and '울구 가구' (two words ending in '구').
Addresses ==
    StringsUpTo({GA, GU, SP}, MaxAddrLen)
    \cup {<<SEO, UL, SP, GA, GU, SP, GA>>, <<UL, GU, SP, GA, GU>>}

DistrictPool == {<<GA, GU>>, <<SEO, GA, GU>>, <<GU, GA, GU>>}

Doc(a, road, y, x) ==
    [address_name |-> a, road_address_name |-> road, y |-> y, x |-> x]

Docs ==
    {Doc(a, <<>>, "37", "127") : a \in Addresses}
    \cup {Doc(<<>>, <<GA, GU>>, "37", "127"), Doc(None, None, "37", "127"),
          Doc(<<GA, GU>>, <<>>, "abc", "127"), Doc(<<GA, GU>>, <<>>, "37", "abc")}

Http(status, body, err, msg, docs) ==
    [kind |-> "http", status_code |-> status, body |-> body,
     decode_error |-> err, message |-> msg, documents |-> docs]

ConnectionError ==
    [kind |-> "connection_error", status_code |-> 0, body |-> "none",
     decode_error |-> "none", message |-> <<>>, documents |-> <<>>]

DecodeErrors == {"JSONDecodeError(ValueError)", "JSONDecodeError(RequestException)"}

Responses ==
    {ConnectionError}
    \cup {Http(403, "json", "none", m, <<>>) : m \in {<<"disabled">>, None}}
    \cup {Http(500, "json", "none", <<>>, <<>>)}
    \cup {Http(st, "not_json", e, <<>>, <<>>) : st \in {200, 403}, e \in DecodeErrors}
    \cup {Http(200, "json", "none", <<>>, <<>>)}
    \cup {Http(200, "json", "none", <<>>, <<d>>) : d \in Docs}
    \cup {Http(200, "json", "none", <<>>, <<Doc(<<GA, GU>>, <<>>, "37", "127"),
                                            Doc(<<GU, GU>>, <<>>, "37", "127")>>)}

NoTable == <<>>

----------------------------------------------------------------------------
(* KakaoMapSingleton: construction and the API key                         *)
(*                                                                         *)
(* An API key is a string; '' is a variable set to nothing.  An instance   *)
(* is [id, _api_key, _base_url]: id tells objects apart (the None of       *)
(* _instance is NoInstance, with id 0), and an attribute that was never    *)
(* assigned is NoAttribute.                                                *)

\* os.getenv(name) of a variable that is not set
Unset == None

\* An environment with neither API key variable
NoKeys == [KAKAO_REST_API_KEY |-> Unset, KAKAO_MAP_API_KEY |-> Unset]

\* Reading an attribute that was never assigned
NoAttribute == <<"AttributeError">>

\* _instance = None (line 13)
NoInstance == [id |-> 0, _api_key |-> NoAttribute, _base_url |-> NoAttribute]

\* load_dotenv(env_path): the variables of the file that os.environ does
\* not already have (override=False)
load_dotenv(env, file) ==
    [name \in DOMAIN env |-> IF env[name] = Unset THEN file[name] ELSE env[name]]

\* KakaoMapSingleton._retrieve_api_key (lines 24-46): the key or the
\* ValueError, and what it leaves in os.environ and _env_loaded
_retrieve_api_key(env, file, loaded) ==
    LET env1 == IF ~loaded THEN load_dotenv(env, file) ELSE env
        api_key == PyOr(env1.KAKAO_REST_API_KEY, env1.KAKAO_MAP_API_KEY)
    IN  [outcome |-> IF api_key = <<>> \/ api_key = None
                     THEN Raise("ValueError", <<"KAKAO_REST_API_KEY">>)
                     ELSE Return(api_key),
         environ |-> env1,
         _env_loaded |-> TRUE]

\* A constructor that builds a new object at every call.
new_every_call(inst, env, file, loaded, id) ==
    LET key == _retrieve_api_key(env, file, loaded)
        created == [id |-> id,
                    _api_key |-> IF key.outcome.kind = "raise" THEN NoAttribute
                                 ELSE key.outcome.value,
                    _base_url |-> IF key.outcome.kind = "raise" THEN NoAttribute
                                  ELSE <<"https://dapi.kakao.com/v2/local">>]
    IN  [outcome |-> IF key.outcome.kind = "raise" THEN key.outcome ELSE Return(created),
         _instance |-> created,
         environ |-> key.environ,
         _env_loaded |-> key._env_loaded,
         read |-> TRUE]

\* KakaoMapSingleton.__new__ (lines 16-22).  cls._instance is assigned at
\* line 19, before _retrieve_api_key runs at line 20: when that raises, the
\* class keeps an instance that has neither _api_key nor _base_url.
\* read tells whether the call read the key from the environment.
__new__(inst, env, file, loaded, id) ==
    IF inst = NoInstance
    THEN LET key == _retrieve_api_key(env, file, loaded)
         IN  IF key.outcome.kind = "raise"
             THEN [outcome |-> key.outcome,
                   _instance |-> [id |-> id, _api_key |-> NoAttribute,
                                  _base_url |-> NoAttribute],
                   environ |-> key.environ,
                   _env_loaded |-> key._env_loaded,
                   read |-> TRUE]
             ELSE LET created == [id |-> id, _api_key |-> key.outcome.value,
                                  _base_url |-> <<"https://dapi.kakao.com/v2/local">>]
                  IN  [outcome |-> Return(created),
                       _instance |-> created,
                       environ |-> key.environ,
                       _env_loaded |-> key._env_loaded,
                       read |-> TRUE]
    ELSE [outcome |-> Return(inst), _instance |-> inst, environ |-> env,
          _env_loaded |-> loaded, read |-> FALSE]

\* The class state and the history after one more KakaoMapSingleton() call
\* made by caller, from the state st.
Constructed(st, file, caller) ==
    LET made == __new__(st._instance, st.environ, file, st._env_loaded,
                        Len(st.constructions) + 1)
    IN  [_instance |-> made._instance,
         environ |-> made.environ,
         _env_loaded |-> made._env_loaded,
         constructions |-> Append(st.constructions,
                                  [caller |-> caller, outcome |-> made.outcome,
                                   read |-> made.read])]

\* seoul_service = SeoulService() at the import of seoul_router (line 13):
\* SeoulService.__init__ runs SeoulMethod(), whose __init__ runs
\* KakaoMapSingleton() (seoul_method.py line 18).
RouterImported(env, file) ==
    Constructed([_instance |-> NoInstance, environ |-> env, _env_loaded |-> FALSE,
                 constructions |-> <<>>], file, "SeoulMethod.__init__")

\* A process whose environment has a key and whose router import has
\* constructed the service objects.
ServiceConstructed ==
    LET started == RouterImported([NoKeys EXCEPT !.KAKAO_REST_API_KEY = <<"k1">>], NoKeys)
    IN  /\ environ = started.environ
        /\ dotenv = NoKeys
        /\ _env_loaded = started._env_loaded
        /\ _instance = started._instance
        /\ constructions = started.constructions

\* The class state and the history, as a record
KakaoState ==
    [_instance |-> _instance, environ |-> environ, _env_loaded |-> _env_loaded,
     constructions |-> constructions]

\* The class state and the history become those of st.
KakaoBecomes(st) ==
    /\ _instance' = st._instance
    /\ environ' = st.environ
    /\ _env_loaded' = st._env_loaded
    /\ constructions' = st.constructions

\* The outcome of the last construction of st
LastOutcome(st) == st.constructions[Len(st.constructions)].outcome

\* kmaps1, kmaps2 and kmaps of preprocess (lines 86, 87 and 94): three
\* constructions, which return the instance the service was built with.
preprocess_kmaps(st, file) ==
    Constructed(Constructed(Constructed(st, file, "SeoulService.preprocess"),
                            file, "SeoulService.preprocess"),
                file, "SeoulService.preprocess")

\* The three files preprocess reads from the data directory
DataFiles == {"cctv.csv", "crime.csv", "pop.xls"}

\* A row of cctv.csv: the district ('기관명') and the camera count ('소계')
CctvRow(name, n) == [gigwanmyeong |-> name, sogye |-> n]

\* A data directory with its three files, a writable save directory with
\* no artifact yet, and nothing stored by an earlier pass.
DataFilesInPlace ==
    /\ cctv_csv = <<CctvRow(<<GA, GU>>, 10), CctvRow(<<JONG, RO, GU>>, 20)>>
    /\ files = DataFiles
    /\ save_writable = TRUE
    /\ crime_with_gu_csv = <<>>
    /\ dataset_cctv = <<>>
    /\ cctv_pop_df = <<>>

\* _sentiment_service = None
NoService == [id |-> 0, is_loaded |-> FALSE]

\* No call made to the Titanic or KoELECTRA service and no request in flight
OtherServicesIdle ==
    /\ processed_dataset = <<"None">>
    /\ train_labels = <<"None">>
    /\ models = <<>>
    /\ X_test = <<"None">>
    /\ _sentiment_service = NoService
    /\ model_dir = <<>>
    /\ calls = <<>>
    /\ request_pc = <<>>
    /\ running = 0
    /\ request_tables = <<>>
    /\ responses = <<>>

----------------------------------------------------------------------------
(* The resolver: initial state and actions                                 *)

InitResolver ==
    /\ op = "idle"
    /\ ServiceConstructed
    /\ station_name \in Stations
    /\ valid_districts \in SUBSET DistrictPool
    /\ upstream \in {<<r>> : r \in Responses}
    /\ queries = <<>>
    /\ returned = Return(None)
    /\ crime_csv = NoTable
    /\ pop_xls = NoTable
    /\ crime_df_with_pop = NoTable
    /\ pop_clean = NoTable
    /\ df = NoTable
    /\ arg_name = None
    /\ arg_val = None
    /\ rate_column = <<>>
    /\ DataFilesInPlace
    /\ OtherServicesIdle

\* SeoulMethod.station_to_district(station_name)
StationToDistrict ==
    /\ op = "idle"
    /\ op' = "station_to_district"
    /\ LET call == station_to_district(station_name, valid_districts, upstream[1])
       IN  /\ returned' = call.outcome
           /\ queries' = call.queries
    /\ UNCHANGED <<station_name, valid_districts, upstream, crime_csv, pop_xls,
                   crime_df_with_pop, pop_clean, df, kakao_vars,
                   arg_name, arg_val, rate_column, disk_vars, service_vars>>

\* KakaoMapSingleton.geocode(address) with the resolver's query
Geocode ==
    /\ op = "idle"
    /\ op' = "geocode"
    /\ returned' = geocode(station_name \o <<SP, SEO, UL>>, upstream[1])
    /\ queries' = <<station_name \o <<SP, SEO, UL>>>>
    /\ UNCHANGED <<station_name, valid_districts, upstream, crime_csv, pop_xls,
                   crime_df_with_pop, pop_clean, df, kakao_vars,
                   arg_name, arg_val, rate_column, disk_vars, service_vars>>

NextResolver == StationToDistrict \/ Geocode

SpecResolver == InitResolver /\ [][NextResolver]_vars

----------------------------------------------------------------------------
(* DataFrame cells                                                         *)
(*                                                                         *)
(* A cell read by pandas is an int, a float (every number of a column      *)
(* that has a blank cell), NaN, or a str.  Floats of the model are whole.  *)

IntCell(n) == [t |-> "int", n |-> n, s |-> <<>>]
FloatCell(n) == [t |-> "float", n |-> n, s |-> <<>>]
StrCell(s) == [t |-> "str", n |-> 0, s |-> s]
NaN == [t |-> "nan", n |-> 0, s |-> <<>>]

\* float('inf') (sign 1) and float('-inf') (sign -1)
InfCell(sign) == [t |-> "inf", n |-> sign, s |-> <<>>]

Digits == <<"0", "1", "2", "3", "4", "5", "6", "7", "8", "9">>

IsDigit(c) == c \in {"0", "1", "2", "3", "4", "5", "6", "7", "8", "9"}

DigitValue(c) ==
    CASE c = "0" -> 0 [] c = "1" -> 1 [] c = "2" -> 2 [] c = "3" -> 3 [] c = "4" -> 4
      [] c = "5" -> 5 [] c = "6" -> 6 [] c = "7" -> 7 [] c = "8" -> 8 [] c = "9" -> 9

RECURSIVE NatStr(_)
\* str(n) for n >= 0
NatStr(n) == IF n < 10 THEN <<Digits[n + 1]>> ELSE NatStr(n \div 10) \o <<Digits[(n % 10) + 1]>>

\* str(n)
IntStr(n) == IF n < 0 THEN <<"-">> \o NatStr(-n) ELSE NatStr(n)

\* str(val) of a cell that is not NaN
PyStr(cell) ==
    CASE cell.t = "int" -> IntStr(cell.n)
      [] cell.t = "float" -> IntStr(cell.n) \o <<".", "0">>
      [] cell.t = "inf" -> IF cell.n < 0 THEN <<"-", "i", "n", "f">> ELSE <<"i", "n", "f">>
      [] OTHER -> cell.s

RECURSIVE lstrip(_, _)
\* str.lstrip(chars)
lstrip(s, chars) ==
    IF Len(s) > 0 /\ s[1] \in chars THEN lstrip(Tail(s), chars) ELSE s

RECURSIVE rstrip(_, _)
\* str.rstrip(chars)
rstrip(s, chars) ==
    IF Len(s) > 0 /\ s[Len(s)] \in chars THEN rstrip(DropLast(s), chars) ELSE s

\* str.strip(chars); strip() with no argument strips whitespace
strip(s, chars) == rstrip(lstrip(s, chars), chars)

Whitespace == {SP}

RECURSIVE DigitsValue(_)
DigitsValue(s) ==
    IF Len(s) = 0 THEN 0 ELSE 10 * DigitsValue(DropLast(s)) + DigitValue(s[Len(s)])

AllDigits(s) == Len(s) > 0 /\ \A i \in 1..Len(s) : IsDigit(s[i])

\* int(s) raises ValueError unless s is an optional sign and decimal digits
IntRaises(s) ==
    ~(\/ AllDigits(s)
      \/ (Len(s) > 1 /\ s[1] \in {"-", "+"} /\ AllDigits(Tail(s))))

\* int(s), for s that int() accepts
IntValue(s) ==
    IF s[1] = "-" THEN 0 - DigitsValue(Tail(s))
    ELSE IF s[1] = "+" THEN DigitsValue(Tail(s))
    ELSE DigitsValue(s)

RECURSIVE GroupThousands(_)
\* the digits of n >= 0 with a ',' before every group of three
GroupThousands(n) ==
    IF n < 1000 THEN NatStr(n)
    ELSE GroupThousands(n \div 1000) \o <<",">> \o
         <<Digits[((n \div 100) % 10) + 1], Digits[((n \div 10) % 10) + 1],
           Digits[(n % 10) + 1]>>

\* f"{total:,}"
FormatComma(total) ==
    IF total < 0 THEN <<"-">> \o GroupThousands(0 - total) ELSE GroupThousands(total)

\* Code point order of the characters of the model.
Ord(c) ==
    CASE c = SP -> 32 [] c = DQ -> 34 [] c = SQ -> 39
      [] c = GA -> 44032 [] c = GU -> 44396 [] c = RO -> 47196
      [] c = SEO -> 49436 [] c = UL -> 50872 [] c = JONG -> 51333
      [] OTHER -> 65

\* a < b for Python strings
StrLess(a, b) ==
    \E k \in 1..(Len(b)) :
        /\ k <= Len(a) + 1
        /\ \A i \in 1..(k - 1) : a[i] = b[i]
        /\ (k = Len(a) + 1 \/ Ord(a[k]) < Ord(b[k]))

RECURSIVE SortStrings(_)
\* The strings of a set in ascending order
SortStrings(S) ==
    IF S = {} THEN <<>>
    ELSE LET least == CHOOSE a \in S : \A b \in S \ {a} : StrLess(a, b)
         IN  <<least>> \o SortStrings(S \ {least})

----------------------------------------------------------------------------
(* SeoulService._merge_duplicate_gu                                        *)
(*                                                                         *)
(* Columns: gwanseo = 관서명, jachigu = 자치구, and the ten count columns   *)
(* '<crime> 발생' (balsaeng) and '<crime> 검거' (geomgeo) for              *)
(* 살인, 강도, 강간, 절도, 폭력.                                            *)

numeric_columns ==
    {"salin_balsaeng", "salin_geomgeo", "gangdo_balsaeng", "gangdo_geomgeo",
     "gangan_balsaeng", "gangan_geomgeo", "jeoldo_balsaeng", "jeoldo_geomgeo",
     "pokryeok_balsaeng", "pokryeok_geomgeo"}

\* One step of the loop of sum_string_numbers: what val adds to total.
Addend(val) ==
    IF val.t = "nan" THEN 0
    ELSE LET str_val == strip(remove(PyStr(val), ","), Whitespace)
         IN  IF IntRaises(str_val) THEN 0 ELSE IntValue(str_val)

RECURSIVE SumAddends(_)
SumAddends(series) ==
    IF Len(series) = 0 THEN 0 ELSE Addend(Head(series)) + SumAddends(Tail(series))

sum_string_numbers(series) == StrCell(FormatComma(SumAddends(series)))

first_value(series) == IF Len(series) > 0 THEN series[1] ELSE <<>>

\* The rows of a group, in input order
GroupRows(rows, key) == SelectSeq(rows, LAMBDA row : row.jachigu = key)

Column(rows, col) == AsTuple([i \in 1..Len(rows) |-> rows[i].counts[col]])

\* df.groupby('자치구', as_index=False).agg(agg_dict): one row per key, keys
\* ascending
_merge_duplicate_gu(rows) ==
    LET keys == SortStrings({rows[i].jachigu : i \in 1..Len(rows)})
    IN  AsTuple([g \in 1..Len(keys) |->
            LET group == GroupRows(rows, keys[g])
            IN  [gwanseo |-> first_value([i \in 1..Len(group) |-> group[i].gwanseo]),
                 counts |-> [col \in numeric_columns |->
                                sum_string_numbers(Column(group, col))],
                 jachigu |-> keys[g]]])

----------------------------------------------------------------------------
(* Inputs of _merge_duplicate_gu                                           *)

CellPool ==
    {IntCell(3), IntCell(5), FloatCell(3), FloatCell(5), NaN,
     StrCell(<<"1", ",", "2", "3", "4">>), StrCell(<<"9", "9", "9">>),
     StrCell(<<"-">>)}

CountsPool ==
    {[col \in numeric_columns |-> c] : c \in CellPool}
    \cup {[col \in numeric_columns |->
             IF col = "salin_balsaeng" THEN IntCell(3)
             ELSE IF col = "jeoldo_balsaeng" THEN StrCell(<<"1", ",", "2", "3", "4">>)
             ELSE IntCell(0)]}

MergeRowPool ==
    [gwanseo : {<<GA, SEO>>, <<UL, SEO>>},
     counts : CountsPool,
     jachigu : {<<GA, GU>>, <<UL, GU>>, <<>>}]

SeqsUpTo(S, n) == UNION {[1..k -> S] : k \in 0..n}

InitMergeGu ==
    /\ op = "idle"
    /\ ServiceConstructed
    /\ df \in SeqsUpTo(MergeRowPool, MaxMergeRows)
    /\ arg_name = None
    /\ arg_val = None
    /\ rate_column = <<>>
    /\ DataFilesInPlace
    /\ OtherServicesIdle
    /\ station_name = <<>>
    /\ valid_districts = {}
    /\ upstream = <<>>
    /\ queries = <<>>
    /\ returned = Return(None)
    /\ crime_csv = NoTable
    /\ pop_xls = NoTable
    /\ crime_df_with_pop = NoTable
    /\ pop_clean = NoTable

\* SeoulService._merge_duplicate_gu(df)
MergeDuplicateGu ==
    /\ op = "idle"
    /\ op' = "_merge_duplicate_gu"
    /\ returned' = Return(_merge_duplicate_gu(df))
    /\ UNCHANGED <<station_name, valid_districts, upstream, queries, crime_csv,
                   pop_xls, crime_df_with_pop, pop_clean, df, kakao_vars,
                   arg_name, arg_val, rate_column, disk_vars, service_vars>>

NextMergeGu == MergeDuplicateGu

SpecMergeGu == InitMergeGu /\ [][NextMergeGu]_vars

----------------------------------------------------------------------------
(* SeoulService.preprocess                                                 *)
(*                                                                         *)
(* crime.csv rows: [gwanseo, counts].  pop.xls rows, reduced to the two    *)
(* columns preprocess keeps: [jachigu, ingu] (자치구 and the 4th column,    *)
(* 인구); a NaN name is None.  Floats of the model are whole numbers.       *)

JongnoPop == 162820

JONGNO_GU == <<JONG, RO, GU>>

\* '서울' + str(name[:-1]) + '경찰서' ('경' and '찰' are written GA)
StationQuery(name) == <<SEO, UL>> \o DropLast(name) \o <<GA, GA, SEO>>

RECURSIVE split(_)
\* str.split(): the maximal runs of non-whitespace characters
split(s) ==
    IF Len(s) = 0 THEN <<>>
    ELSE IF s[1] \in Whitespace THEN split(Tail(s))
    ELSE LET rest == split(Tail(s))
         IN  IF Len(s) > 1 /\ s[2] \notin Whitespace
             THEN <<(<<s[1]>> \o Head(rest))>> \o Tail(rest)
             ELSE <<(<<s[1]>>)>> \o rest

\* a in b
IsSubstr(a, b) ==
    \E i \in 0..(Len(b) - Len(a)) : SubSeq(b, i + 1, i + Len(a)) = a

\* The first index at which the geocode loop of lines 96-111 raises, 0 if
\* it runs to the end.
FirstRaise(names, ups) ==
    LET raising == {i \in 1..Len(names) :
                       geocode(StationQuery(names[i]), ups[i]).kind = "raise"}
    IN  IF raising = {} THEN 0
        ELSE CHOOSE i \in raising : \A j \in raising : i <= j

\* A loop that caught the error of a call and went on would send a query
\* for every station.
QueriesSentToTheEnd(names, ups) == [i \in 1..Len(names) |-> StationQuery(names[i])]

\* The queries the loop of lines 96-111 sends: one per station name, in
\* order, up to and including the first call that raises.
QueriesSent(names, ups) ==
    LET k == FirstRaise(names, ups)
        n == IF k = 0 THEN Len(names) ELSE k
    IN  AsTuple([i \in 1..n |-> StationQuery(names[i])])

\* station_addrs (lines 97-111), for a loop that ran to the end
StationAddr(name, r) ==
    LET tmp == geocode(StationQuery(name), r).value
    IN  IF Len(tmp) > 0 THEN tmp[1].formatted_address ELSE <<>>

\* gu_names (lines 115-126)
GuName(addr) ==
    IF addr = None \/ addr = <<>> THEN <<>>
    ELSE LET tmp_gu == SelectSeq(split(addr), LAMBDA gu : gu[Len(gu)] = GU)
         IN  IF Len(tmp_gu) > 0 THEN tmp_gu[1] ELSE <<>>

\* lines 152-154: pop_df.drop(index=[1, 2, 3]).reset_index(drop=True)
DropMetaRows(rows) ==
    IF Len(rows) > 3 THEN <<rows[1]>> \o SubSeq(rows, 5, Len(rows)) ELSE rows

\* normalize_gu_name (lines 172-180)
normalize_gu_name(name) ==
    IF name = None THEN <<>>
    ELSE strip(strip(strip(strip(name, Whitespace), {DQ}), {SQ}), Whitespace)

\* s without the sign float() allows in front
Unsigned(s) == IF Len(s) > 0 /\ s[1] \in {"-", "+"} THEN Tail(s) ELSE s

\* float() reads s as a decimal numeral: an optional sign, digits, and an
\* optional point among them.  (The strings of the model have no exponent
\* and no underscore.)
IsNumeral(s) ==
    LET body == Unsigned(s)
        dots == {i \in 1..Len(body) : body[i] = "."}
    IN  /\ Cardinality(dots) <= 1
        /\ \A i \in 1..Len(body) : IsDigit(body[i]) \/ body[i] = "."
        /\ \E i \in 1..Len(body) : IsDigit(body[i])

\* float() reads s as an infinity: 'inf' or 'infinity' after an optional
\* sign.  (The letters of the model are lower case.)
IsInfinity(s) ==
    Unsigned(s) \in {<<"i", "n", "f">>, <<"i", "n", "f", "i", "n", "i", "t", "y">>}

\* float() reads s as a NaN: 'nan' after an optional sign
IsNanWord(s) == Unsigned(s) = <<"n", "a", "n">>

\* float(s) raises ValueError for every other string
FloatStrRaises(s) == ~(IsNumeral(s) \/ IsInfinity(s) \/ IsNanWord(s))

\* float(s) for a numeral whose fraction digits are zeros
FloatStrValue(s) ==
    LET neg == s[1] = "-"
        body == Unsigned(s)
        whole == IF \E i \in 1..Len(body) : body[i] = "."
                 THEN SubSeq(body, 1, (CHOOSE i \in 1..Len(body) : body[i] = ".") - 1)
                 ELSE body
    IN  IF neg THEN 0 - DigitsValue(whole) ELSE DigitsValue(whole)

\* float(s), for s that float() accepts
ParsedFloat(s) ==
    IF IsInfinity(s) THEN InfCell(IF s[1] = "-" THEN -1 ELSE 1)
    ELSE IF IsNanWord(s) THEN NaN
    ELSE FloatCell(FloatStrValue(s))

\* str_to_float (lines 187-194)
str_to_float(val) ==
    IF val.t = "nan" THEN FloatCell(0)
    ELSE LET str_val == strip(remove(PyStr(val), ","), Whitespace)
         IN  IF FloatStrRaises(str_val) THEN FloatCell(0)
             ELSE ParsedFloat(str_val)

Names(rows) == AsTuple([i \in 1..Len(rows) |-> rows[i].jachigu])

InSeq(x, s) == \E i \in 1..Len(s) : s[i] = x

RECURSIVE Unique(_)
\* Series.unique(): first occurrences, in order
Unique(s) ==
    IF Len(s) = 0 THEN <<>>
    ELSE LET front == Unique(DropLast(s))
         IN  IF InSeq(s[Len(s)], front) THEN front ELSE Append(front, s[Len(s)])

Rename(rows, old, new) ==
    AsTuple([i \in 1..Len(rows) |->
        IF rows[i].jachigu = old THEN [rows[i] EXCEPT !.jachigu = new] ELSE rows[i]])

\* lines 205-222: a population name containing '종로' is renamed '종로구'
JongnoVariant(pop) ==
    IF InSeq(JONGNO_GU, Names(pop)) THEN pop
    ELSE LET jongno_variants ==
                 SelectSeq(Names(pop), LAMBDA gu : IsSubstr(<<JONG, RO>>, gu))
         IN  IF Len(jongno_variants) > 0
             THEN Rename(pop, jongno_variants[1], JONGNO_GU)
             ELSE pop

\* A correction that only adds a missing '종로구' row.
JongnoAddedOnly(pop, crime_gu_list) ==
    IF InSeq(JONGNO_GU, crime_gu_list) /\ ~InSeq(JONGNO_GU, Names(pop))
    THEN Append(pop, [jachigu |-> JONGNO_GU, ingu |-> FloatCell(JongnoPop)])
    ELSE pop

\* lines 224-239: the population of '종로구' is set to 162,820
JongnoCorrect(pop, crime_gu_list) ==
    IF ~InSeq(JONGNO_GU, crime_gu_list) THEN pop
    ELSE IF ~InSeq(JONGNO_GU, Names(pop))
    THEN Append(pop, [jachigu |-> JONGNO_GU, ingu |-> FloatCell(JongnoPop)])
    ELSE LET current_pop ==
                 SelectSeq(pop, LAMBDA row : row.jachigu = JONGNO_GU)[1].ingu
         IN  IF current_pop # FloatCell(JongnoPop)
             THEN AsTuple([i \in 1..Len(pop) |->
                      IF pop[i].jachigu = JONGNO_GU
                      THEN [pop[i] EXCEPT !.ingu = FloatCell(JongnoPop)]
                      ELSE pop[i]])
             ELSE pop

\* A rule that accepts equal names only.
similar_gu_equal_only(crime_gu, pop) ==
    SelectSeq(Names(pop), LAMBDA gu : gu = crime_gu)

\* lines 246-248: the population names the similarity rule accepts for
\* crime_gu, in table order
similar_gu(crime_gu, pop) ==
    SelectSeq(Names(pop),
              LAMBDA gu : \/ IsSubstr(crime_gu, gu)
                          \/ IsSubstr(gu, crime_gu)
                          \/ remove(crime_gu, GU) = remove(gu, GU))

\* line 244: the crime districts that get an entry of gu_mapping
IsMapped(crime_gu, pop) ==
    /\ crime_gu # <<>>
    /\ crime_gu # JONGNO_GU
    /\ ~InSeq(crime_gu, Names(pop))
    /\ Len(similar_gu(crime_gu, pop)) > 0

\* lines 253-258: reverse_mapping maps a population name to the LAST crime
\* district mapped to it; the other names are kept
ReverseMap(x, crime_gu_list, pop) ==
    LET sources == {i \in 1..Len(crime_gu_list) :
                       /\ IsMapped(crime_gu_list[i], pop)
                       /\ similar_gu(crime_gu_list[i], pop)[1] = x}
    IN  IF sources = {} THEN x
        ELSE crime_gu_list[CHOOSE i \in sources : \A j \in sources : j <= i]

ApplyMapping(pop, crime_gu_list) ==
    IF \A i \in 1..Len(crime_gu_list) : ~IsMapped(crime_gu_list[i], pop) THEN pop
    ELSE AsTuple([i \in 1..Len(pop) |->
            [pop[i] EXCEPT !.jachigu = ReverseMap(pop[i].jachigu, crime_gu_list, pop)]])

RECURSIVE MergeLeft(_, _)
\* pd.merge(crime_df, pop_clean, on='자치구', how='left')
MergeLeft(crime, pop) ==
    IF Len(crime) = 0 THEN <<>>
    ELSE LET row == Head(crime)
             hits == SelectSeq(pop, LAMBDA p : p.jachigu = row.jachigu)
             with(v) == [gwanseo |-> row.gwanseo, counts |-> row.counts,
                         jachigu |-> row.jachigu, ingu |-> v]
         IN  (IF Len(hits) = 0 THEN <<with(NaN)>>
              ELSE [i \in 1..Len(hits) |-> with(hits[i].ingu)])
             \o MergeLeft(Tail(crime), pop)

\* pop_clean after lines 147-239: rows edited, names normalized, numbers
\* parsed, '종로구' corrected
PopCorrected(crime, pop) ==
    LET edited == DropMetaRows(pop)
        cleaned == AsTuple([i \in 1..Len(edited) |->
                       [jachigu |-> normalize_gu_name(edited[i].jachigu),
                        ingu |-> str_to_float(edited[i].ingu)]])
    IN  JongnoCorrect(JongnoVariant(cleaned), Unique(Names(crime)))

\* pop_clean as stored at line 329
PopClean(crime, pop) == ApplyMapping(PopCorrected(crime, pop), Unique(Names(crime)))

\* crime_df after lines 131-139 and 184
CrimeDf(rows, ups) ==
    LET with_gu == AsTuple([i \in 1..Len(rows) |->
                       [gwanseo |-> rows[i].gwanseo, counts |-> rows[i].counts,
                        jachigu |-> GuName(StationAddr(rows[i].gwanseo, ups[i]))]])
        grouped == _merge_duplicate_gu(with_gu)
    IN  AsTuple([i \in 1..Len(grouped) |->
            [grouped[i] EXCEPT !.jachigu = normalize_gu_name(grouped[i].jachigu)]])

RECURSIVE merge_left(_, _)
\* pd.merge(right, left, left_on='기관명', right_on='자치구', how='left'):
\* every CCTV row, once per population row of the same name, and once with
\* missing values when there is none
merge_left(cctv, pop) ==
    IF Len(cctv) = 0 THEN <<>>
    ELSE LET row == Head(cctv)
             hits == SelectSeq(pop, LAMBDA p : p.jachigu = row.gigwanmyeong)
             with(gu, v) == [gigwanmyeong |-> row.gigwanmyeong, sogye |-> row.sogye,
                             jachigu |-> gu, ingu |-> v]
         IN  (IF Len(hits) = 0 THEN <<with(None, NaN)>>
              ELSE [i \in 1..Len(hits) |-> with(hits[i].jachigu, hits[i].ingu)])
             \o merge_left(Tail(cctv), pop)

\* SeoulMethod.df_merge(right=cctv, left=pop, left_on='자치구',
\* right_on='기관명', how='left', keep_key): the merge, then the key
\* column that keep_key does not name is dropped (lines 105-112)
df_merge(cctv, pop, keep_key) ==
    LET merged_df == merge_left(cctv, pop)
        columns == CASE keep_key = "right" -> {"gigwanmyeong", "sogye", "ingu"}
                     [] keep_key = "left" -> {"sogye", "jachigu", "ingu"}
                     [] OTHER -> {"gigwanmyeong", "sogye", "jachigu", "ingu"}
    IN  AsTuple([i \in 1..Len(merged_df) |-> [c \in columns |-> merged_df[i][c]]])

\* What preprocess leaves behind: the outcome, the queries sent, and the
\* tables stored on the dataset (unchanged when it raises).
preprocess(rows, pop, ups) ==
    LET names == AsTuple([i \in 1..Len(rows) |-> rows[i].gwanseo])
        k == FirstRaise(names, ups)
        crime_df == CrimeDf(rows, ups)
        pop_df == PopClean(crime_df, pop)
    IN  IF k > 0
        THEN [outcome |-> geocode(StationQuery(names[k]), ups[k]),
              queries |-> QueriesSent(names, ups),
              crime |-> NoTable, pop |-> NoTable, stored |-> FALSE]
        ELSE [outcome |-> Return(<<"ok">>),
              queries |-> QueriesSent(names, ups),
              crime |-> MergeLeft(crime_df, pop_df),
              pop |-> pop_df,
              stored |-> TRUE]

FileNotFound(fname) == Raise("FileNotFoundError", fname)

\* A pass that read a missing file as an empty table
preprocess_absent_as_empty(present, rows, pop, ups) ==
    LET run == preprocess(IF "crime.csv" \in present THEN rows ELSE <<>>,
                          IF "pop.xls" \in present THEN pop ELSE <<>>,
                          IF "crime.csv" \in present THEN ups ELSE <<>>)
    IN  [outcome |-> run.outcome, queries |-> run.queries, crime |-> run.crime,
         pop |-> run.pop, stored |-> run.stored, constructed |-> TRUE]

\* preprocess with the reads of csv_to_df and xls_to_df (lines 67, 72 and
\* 145): cctv.csv and crime.csv are read before the first geocode call,
\* pop.xls after the last one. constructed: whether lines 86-94 were reached.
preprocess_files(present, rows, pop, ups) ==
    LET run == preprocess(rows, pop, ups)
        aborted(e, q, c) == [outcome |-> e, queries |-> q, crime |-> NoTable,
                             pop |-> NoTable, stored |-> FALSE, constructed |-> c]
    IN  IF "cctv.csv" \notin present THEN aborted(FileNotFound(<<"cctv.csv">>), <<>>, FALSE)
        ELSE IF "crime.csv" \notin present
            THEN aborted(FileNotFound(<<"crime.csv">>), <<>>, FALSE)
        ELSE IF run.outcome.kind = "raise" THEN aborted(run.outcome, run.queries, TRUE)
        ELSE IF "pop.xls" \notin present
            THEN aborted(FileNotFound(<<"pop.xls">>), run.queries, TRUE)
        ELSE [outcome |-> run.outcome, queries |-> run.queries, crime |-> run.crime,
              pop |-> run.pop, stored |-> TRUE, constructed |-> TRUE]

----------------------------------------------------------------------------
(* Inputs of preprocess                                                    *)

Found(addr) == Http(200, "json", "none", <<>>, <<Doc(addr, <<>>, "37", "127")>>)

SmallCounts == [col \in numeric_columns |-> IntCell(3)]

LargeCounts == [col \in numeric_columns |-> StrCell(<<"1", ",", "2", "3", "4">>)]

\* A station row of crime.csv with the answer the API gives for it.
StationCase(name, counts, r) == [gwanseo |-> name, counts |-> counts, response |-> r]

StationCasePool ==
    {StationCase(<<GA, SEO>>, SmallCounts, Found(<<SEO, UL, SP, GA, GU, SP, GA>>)),
     StationCase(<<UL, SEO>>, LargeCounts, Found(<<SEO, UL, SP, GA, GU>>)),
     StationCase(<<JONG, RO, SEO>>, SmallCounts, Found(<<SEO, UL, SP, JONG, RO, GU>>)),
     StationCase(<<SEO, GA, SEO>>, SmallCounts, Found(<<SEO, UL, SP, UL, GU>>)),
     StationCase(<<UL, SEO>>, SmallCounts, ConnectionError),
     StationCase(<<GA, SEO>>, LargeCounts, Http(403, "json", "none", <<"disabled">>, <<>>))}

PopRow(name, cell) == [jachigu |-> name, ingu |-> cell]

PopRowPool ==
    {PopRow(<<GA, GU>>, StrCell(<<"1", ",", "2", "3", "4">>)),
     PopRow(<<SP, GA, GU>>, IntCell(500)),
     PopRow(<<GA, SP, GU>>, IntCell(300)),
     PopRow(JONGNO_GU, IntCell(999)),
     PopRow(<<UL>>, FloatCell(700)),
     PopRow(None, NaN)}

\* The four rows above the district rows of pop.xls: sub-headers and total.
PopMetaRows ==
    <<PopRow(<<GA, UL, GU>>, StrCell(<<GA>>)), PopRow(<<GA, UL, GU>>, StrCell(<<GA>>)),
      PopRow(None, StrCell(<<GA>>)), PopRow(<<GA, GA>>, IntCell(9999))>>

\* The tables of lo to hi different rows of S, in any order
TablesFromTo(S, lo, hi) ==
    {t \in UNION {[1..k -> S] : k \in lo..hi} :
        \A i, j \in 1..Len(t) : i # j => t[i] # t[j]}

InitPreprocess ==
    /\ op = "idle"
    /\ ServiceConstructed
    /\ \E cases \in TablesFromTo(StationCasePool, 1, MaxStations) :
           /\ crime_csv = [i \in 1..Len(cases) |->
                              [gwanseo |-> cases[i].gwanseo, counts |-> cases[i].counts]]
           /\ upstream = [i \in 1..Len(cases) |-> cases[i].response]
    /\ \E meta \in {<<>>, PopMetaRows}, data \in TablesFromTo(PopRowPool, 1, MaxPopRows) :
           pop_xls = meta \o data
    /\ valid_districts = {<<GA, GU>>, <<SEO, GA, GU>>, JONGNO_GU}
    /\ station_name = <<>>
    /\ queries = <<>>
    /\ returned = Return(None)
    /\ crime_df_with_pop = NoTable
    /\ pop_clean = NoTable
    /\ df = NoTable
    /\ arg_name = None
    /\ arg_val = None
    /\ rate_column = <<>>
    /\ DataFilesInPlace
    /\ OtherServicesIdle

\* What the pass run leaves: the queries sent, the tables stored on the
\* dataset, the saved CSV and the class state of KakaoMapSingleton
PreprocessRan(run) ==
    /\ queries' = run.queries
    /\ crime_df_with_pop' = IF run.stored THEN run.crime ELSE crime_df_with_pop
    /\ pop_clean' = IF run.stored THEN run.pop ELSE pop_clean
    \* lines 298-306: an error of to_csv is logged and the pass goes on
    /\ crime_with_gu_csv' = IF run.stored /\ save_writable THEN run.crime
                            ELSE crime_with_gu_csv
    /\ dataset_cctv' = IF run.stored THEN cctv_csv ELSE dataset_cctv
    /\ cctv_pop_df' = IF run.stored THEN df_merge(cctv_csv, run.pop, "left")
                      ELSE cctv_pop_df
    /\ IF run.constructed THEN KakaoBecomes(preprocess_kmaps(KakaoState, dotenv))
       ELSE UNCHANGED <<environ, _env_loaded, _instance, constructions>>

\* SeoulService.preprocess()
Preprocess ==
    /\ op = "idle"
    /\ op' = "preprocess"
    /\ LET run == preprocess_files(files, crime_csv, pop_xls, upstream)
       IN  /\ returned' = run.outcome
           /\ PreprocessRan(run)
    /\ UNCHANGED <<station_name, valid_districts, upstream, crime_csv, pop_xls, df,
                   dotenv, arg_name, arg_val, rate_column, cctv_csv, files,
                   save_writable, service_vars>>

NextPreprocess == Preprocess

SpecPreprocess == InitPreprocess /\ [][NextPreprocess]_vars

----------------------------------------------------------------------------
(* The files of a pass: missing inputs, the saved CSV, the CCTV merge      *)

\* What an earlier pass over older files stored and wrote
EarlierCrime ==
    <<[gwanseo |-> <<GA, SEO>>, counts |-> SmallCounts, jachigu |-> <<GA, GU>>,
       ingu |-> FloatCell(1)]>>

EarlierPop == <<PopRow(<<GA, GU>>, FloatCell(1))>>

EarlierCctv == <<CctvRow(<<GA, GU>>, 1)>>

CctvPool ==
    {<<CctvRow(<<GA, GU>>, 10), CctvRow(<<JONG, RO, GU>>, 20)>>,
     <<CctvRow(<<UL, GU>>, 30), CctvRow(<<GA, GU>>, 10)>>}

InitFiles ==
    /\ op = "idle"
    /\ ServiceConstructed
    /\ \E cases \in TablesFromTo(StationCasePool, 1, 1) :
           /\ crime_csv = [i \in 1..Len(cases) |->
                              [gwanseo |-> cases[i].gwanseo, counts |-> cases[i].counts]]
           /\ upstream = [i \in 1..Len(cases) |-> cases[i].response]
    /\ pop_xls \in TablesFromTo(PopRowPool, 1, 1)
    /\ cctv_csv \in CctvPool
    /\ files \in SUBSET DataFiles
    /\ save_writable \in BOOLEAN
    /\ \/ /\ crime_df_with_pop = NoTable
          /\ pop_clean = NoTable
          /\ crime_with_gu_csv = NoTable
          /\ dataset_cctv = NoTable
          /\ cctv_pop_df = NoTable
       \/ /\ crime_df_with_pop = EarlierCrime
          /\ pop_clean = EarlierPop
          /\ crime_with_gu_csv = EarlierCrime
          /\ dataset_cctv = EarlierCctv
          /\ cctv_pop_df = df_merge(EarlierCctv, EarlierPop, "left")
    /\ valid_districts = {<<GA, GU>>, <<SEO, GA, GU>>, JONGNO_GU}
    /\ station_name = <<>>
    /\ queries = <<>>
    /\ returned = Return(None)
    /\ df = NoTable
    /\ arg_name = None
    /\ arg_val = None
    /\ rate_column = <<>>
    /\ OtherServicesIdle

\* SeoulService.get_cctv_pop_merged(): the two files as read, merged
get_cctv_pop_merged(present, cctv, pop) ==
    IF "cctv.csv" \notin present THEN FileNotFound(<<"cctv.csv">>)
    ELSE IF "pop.xls" \notin present THEN FileNotFound(<<"pop.xls">>)
    ELSE Return(df_merge(cctv, pop, "left"))

GetCctvPopMerged ==
    /\ op = "idle"
    /\ op' = "get_cctv_pop_merged"
    /\ returned' = get_cctv_pop_merged(files, cctv_csv, pop_xls)
    /\ UNCHANGED <<station_name, valid_districts, upstream, queries, crime_csv, pop_xls,
                   crime_df_with_pop, pop_clean, df, kakao_vars, arg_name, arg_val,
                   rate_column, disk_vars, service_vars>>

NextFiles == Preprocess \/ GetCctvPopMerged

SpecFiles == InitFiles /\ [][NextFiles]_vars

----------------------------------------------------------------------------
(* Inputs of normalize_gu_name and str_to_float                            *)

\* Values of a '자치구' cell: NaN (None) and strings with blanks and quotes
GuNamePool == {None} \cup StringsUpTo({SP, DQ, SQ, GA}, MaxNameLen)

\* Values of an '인구' cell
ValPool ==
    {NaN, IntCell(5), IntCell(162820), FloatCell(0), FloatCell(162820)}
    \cup {StrCell(str) : str \in StringsUpTo({"1", ",", ".", "-", SP, GA}, MaxCellLen)}
    \cup {StrCell(<<"1", "6", "2", ",", "8", "2", "0">>),
          StrCell(<<SP, "1", ",", "2", "3", "4", ".", "0", SP>>),
          StrCell(<<"i", "n", "f">>), StrCell(<<"-", "i", "n", "f">>),
          StrCell(<<"i", "n", "f", "i", "n", "i", "t", "y">>),
          StrCell(<<"n", "a", "n">>)}

\* Everything but the two arguments, before a function is applied
NothingElse ==
    /\ op = "idle"
    /\ ServiceConstructed
    /\ station_name = <<>>
    /\ valid_districts = {}
    /\ upstream = <<>>
    /\ queries = <<>>
    /\ returned = Return(None)
    /\ crime_csv = NoTable
    /\ pop_xls = NoTable
    /\ crime_df_with_pop = NoTable
    /\ pop_clean = NoTable
    /\ df = NoTable

InitNormalize ==
    /\ NothingElse
    /\ arg_name \in GuNamePool
    /\ arg_val = None
    /\ rate_column = <<>>
    /\ DataFilesInPlace
    /\ OtherServicesIdle

\* normalize_gu_name(name)
NormalizeGuName ==
    /\ op = "idle"
    /\ op' = "normalize_gu_name"
    /\ returned' = Return(normalize_gu_name(arg_name))
    /\ UNCHANGED <<station_name, valid_districts, upstream, queries, crime_csv,
                   pop_xls, crime_df_with_pop, pop_clean, df, kakao_vars,
                   arg_name, arg_val, rate_column, disk_vars, service_vars>>

NextNormalize == NormalizeGuName

SpecNormalize == InitNormalize /\ [][NextNormalize]_vars

InitStrToFloat ==
    /\ NothingElse
    /\ arg_name = None
    /\ arg_val \in ValPool
    /\ rate_column = <<>>
    /\ DataFilesInPlace
    /\ OtherServicesIdle

\* str_to_float(val): every exception float() can raise is caught at line 193
StrToFloat ==
    /\ op = "idle"
    /\ op' = "str_to_float"
    /\ returned' = Return(str_to_float(arg_val))
    /\ UNCHANGED <<station_name, valid_districts, upstream, queries, crime_csv,
                   pop_xls, crime_df_with_pop, pop_clean, df, kakao_vars,
                   arg_name, arg_val, rate_column, disk_vars, service_vars>>

NextStrToFloat == StrToFloat

SpecStrToFloat == InitStrToFloat /\ [][NextStrToFloat]_vars

----------------------------------------------------------------------------
(* The process: router import and later constructions                      *)

KeyValues == {Unset, <<>>, <<"k1">>, <<"k2">>}

Environments == [KAKAO_REST_API_KEY : KeyValues, KAKAO_MAP_API_KEY : KeyValues]

InitKakao ==
    /\ op = "idle"
    /\ environ \in Environments
    /\ dotenv \in Environments
    /\ _env_loaded = FALSE
    /\ _instance = NoInstance
    /\ constructions = <<>>
    /\ station_name = <<>>
    /\ valid_districts = {}
    /\ upstream = <<>>
    /\ queries = <<>>
    /\ returned = Return(None)
    /\ crime_csv = NoTable
    /\ pop_xls = NoTable
    /\ crime_df_with_pop = NoTable
    /\ pop_clean = NoTable
    /\ df = NoTable
    /\ arg_name = None
    /\ arg_val = None
    /\ rate_column = <<>>
    /\ DataFilesInPlace
    /\ OtherServicesIdle

\* Process start: importing seoul_router runs seoul_service = SeoulService()
\* (seoul_router.py line 13), whose __init__ runs SeoulMethod(), whose
\* __init__ runs KakaoMapSingleton() (seoul_method.py line 18).  No geocode
\* call is made.
ImportRouter ==
    /\ op = "idle"
    /\ op' = "import_router"
    /\ LET started == RouterImported(environ, dotenv)
       IN  /\ KakaoBecomes(started)
           /\ returned' = LastOutcome(started)
    /\ UNCHANGED <<station_name, valid_districts, upstream, queries, crime_csv,
                   pop_xls, crime_df_with_pop, pop_clean, df, dotenv, arg_name,
                   arg_val, rate_column, disk_vars, service_vars>>

\* A later KakaoMapSingleton() call (seoul_service.py lines 86, 87, 94, 984)
KakaoMapSingleton ==
    /\ Len(constructions) < MaxConstructions
    /\ op' = "KakaoMapSingleton"
    /\ LET made == Constructed(KakaoState, dotenv, "SeoulService")
       IN  /\ KakaoBecomes(made)
           /\ returned' = LastOutcome(made)
    /\ UNCHANGED <<station_name, valid_districts, upstream, queries, crime_csv,
                   pop_xls, crime_df_with_pop, pop_clean, df, dotenv, arg_name,
                   arg_val, rate_column, disk_vars, service_vars>>

NextKakao == ImportRouter \/ KakaoMapSingleton

SpecKakao == InitKakao /\ [][NextKakao]_vars

----------------------------------------------------------------------------
(* Claims about the District Resolver and the Geocode Resolver             *)

Chars == {SEO, GU, UL, GA, SP, DQ, SQ}

IsString(v) == v # None /\ \A i \in 1..Len(v) : v[i] \in Chars

\* The station name with only its trailing '서' replaced by '구'.
SuffixRewrite(station) == DropLast(station) \o <<GU>>

\* What the geocode call of the resolver produced for the query it sent.
ResolverGeocode == geocode(queries[1], upstream[1])

\* The address the resolver read from the first geocode result, or None.
ResolverAddress ==
    IF ResolverGeocode.kind = "return" /\ Len(ResolverGeocode.value) > 0
    THEN ResolverGeocode.value[1].formatted_address
    ELSE None

\* v is a run of Korean characters of s that ends in '구', starts at the
\* leftmost position where such a run starts, and is the longest one there.
IsGuRunAt(s, i, j) ==
    /\ 1 <= i /\ i < j /\ j <= Len(s)
    /\ s[j] = GU
    /\ \A k \in i..j : IsHangul(s[k])

HasGuRun(s) == \E i, j \in 1..Len(s) : IsGuRunAt(s, i, j)

IsFirstGuRun(s, v) ==
    \E i, j \in 1..Len(s) :
        /\ IsGuRunAt(s, i, j)
        /\ v = SubSeq(s, i, j)
        /\ \A a, b \in 1..Len(s) : IsGuRunAt(s, a, b) => a >= i /\ (a = i => b <= j)

\* C1: a station name ending in '서' whose trailing-suffix rewrite is a known
\* district is resolved to exactly that rewrite, with zero geocode calls.
C1_KnownRewriteReturnedWithoutGeocode ==
    (/\ op = "station_to_district"
     /\ endswith(station_name, SEO)
     /\ SuffixRewrite(station_name) \in valid_districts)
    => (returned = Return(SuffixRewrite(station_name)) /\ queries = <<>>)

\* C5: an HTTP 403 answer makes geocode fail with a permission-denied error
\* carrying the upstream message, an outcome that differs from the empty
\* result returned for an empty documents list.
C5_ForbiddenRaisesPermissionDenied ==
    (/\ op = "geocode"
     /\ upstream[1].kind = "http"
     /\ upstream[1].status_code = 403
     /\ upstream[1].body = "json")
    => (/\ returned.kind = "raise"
        /\ returned.message = ErrorMsg(upstream[1])
        /\ returned # geocode(queries[1], Http(200, "json", "none", <<>>, <<>>)))

\* C7: station_to_district never raises: whatever the station name and the
\* geocode outcome, it returns a string.
C7_StationToDistrictReturnsString ==
    op = "station_to_district"
    => (returned.kind = "return" /\ IsString(returned.value))

C7_GeocodeRaisedYetStringReturned ==
    /\ op = "station_to_district"
    /\ Len(queries) = 1
    /\ ResolverGeocode.kind = "raise"
    /\ returned.kind = "return"

\* C8: when every lookup fails (geocode returns nothing, raises, or gives an
\* address without a district) the result is the station name with only its
\* trailing '서' replaced by '구', or the unchanged name if it has no such
\* suffix.
C8_FailedLookupsFallBackToSuffixRewrite ==
    (/\ op = "station_to_district"
     /\ Len(queries) = 1
     /\ (ResolverAddress = None \/ ~HasGuRun(ResolverAddress)))
    => returned = Return(IF endswith(station_name, SEO)
                         THEN SuffixRewrite(station_name)
                         ELSE station_name)

\* C9: when the resolver's geocode call returns a result whose formatted
\* address contains a run of Korean characters ending in '구', the resolver
\* returns the first such run of the address.
C9_FirstGuRunOfAddressReturned ==
    (/\ op = "station_to_district"
     /\ Len(queries) = 1
     /\ ResolverAddress # None
     /\ HasGuRun(ResolverAddress))
    => (returned.kind = "return"
        /\ IsFirstGuRun(ResolverAddress, returned.value))

C9_UnknownRewriteResolvedFromAddress ==
    /\ op = "station_to_district"
    /\ station_name = <<GA, GA, SEO>>
    /\ SuffixRewrite(station_name) \notin valid_districts
    /\ Len(queries) = 1
    /\ ResolverAddress = <<SEO, UL, SP, GA, GU, SP, GA>>
    /\ returned = Return(<<GA, GU>>)

----------------------------------------------------------------------------
(* Claims about the duplicate-district aggregation                         *)

\* The number a count cell holds: an int or float cell its number, a str
\* cell the integer it spells once ',' separators and surrounding blanks are
\* removed, any other cell none (0).
NumericValue(cell) ==
    CASE cell.t \in {"int", "float"} -> cell.n
      [] cell.t = "str" ->
            IF AllDigits(strip(remove(cell.s, ","), Whitespace))
            THEN DigitsValue(strip(remove(cell.s, ","), Whitespace))
            ELSE 0
      [] OTHER -> 0

RECURSIVE SumNumeric(_)
SumNumeric(series) ==
    IF Len(series) = 0 THEN 0
    ELSE NumericValue(Head(series)) + SumNumeric(Tail(series))

\* C3: for every district of the input rows the output of
\* _merge_duplicate_gu has one row, whose ten count columns each hold the sum
\* of the numeric values of that column over the district's input rows and
\* whose station name is that of the district's first input row.
C3_GroupSumsEveryCountColumn ==
    op = "_merge_duplicate_gu" =>
        \A i \in 1..Len(df) :
            LET key == df[i].jachigu
                out == SelectSeq(returned.value, LAMBDA row : row.jachigu = key)
                group == GroupRows(df, key)
            IN  /\ Len(out) = 1
                /\ out[1].gwanseo = group[1].gwanseo
                /\ \A col \in numeric_columns :
                       NumericValue(out[1].counts[col]) = SumNumeric(Column(group, col))

----------------------------------------------------------------------------
(* Claims about the reconciliation pass                                    *)

PassReturned == op = "preprocess" /\ returned.kind = "return"

\* The station's name with its trailing '서' replaced is a known district.
RewriteKnown(name) ==
    endswith(name, SEO) /\ SuffixRewrite(name) \in valid_districts

\* C2: after a reconciliation pass no two rows of the reconciled crime
\* table carry the same normalized district name.
C2_OneRowPerNormalizedDistrict ==
    PassReturned =>
        \A i, j \in 1..Len(crime_df_with_pop) :
            i # j => normalize_gu_name(crime_df_with_pop[i].jachigu)
                     # normalize_gu_name(crime_df_with_pop[j].jachigu)

\* The population table preprocess matches names against, rebuilt from the
\* spreadsheet.
MatchedPop == PopCorrected(crime_df_with_pop, pop_xls)

\* Two names that differ only by blanks inside them.
DifferBySpaces(a, b) == a # b /\ remove(a, SP) = remove(b, SP)

\* C4 as stated: a crime district and a population district that differ
\* only by an internal space are matched, so the merged row of the crime
\* district carries the population of that population row.
C4_NamesDifferingBySpaceReconciled ==
    PassReturned =>
        LET pop == MatchedPop
        IN  \A i \in 1..Len(crime_df_with_pop) : \A k \in 1..Len(pop) :
                (/\ DifferBySpaces(crime_df_with_pop[i].jachigu, pop[k].jachigu)
                 /\ \A l \in 1..Len(pop) :
                        l # k => remove(pop[l].jachigu, SP) # remove(pop[k].jachigu, SP))
                => crime_df_with_pop[i].ingu = pop[k].ingu

\* The similarity rule: one name contains the other, or they are equal once
\* every '구' is removed.
RuleAccepts(crime_gu, gu) ==
    \/ IsSubstr(crime_gu, gu)
    \/ IsSubstr(gu, crime_gu)
    \/ remove(crime_gu, GU) = remove(gu, GU)

\* k is the first row of the population table pop whose name the rule
\* accepts for the crime district c, where c is non-empty, is not '종로구'
\* and has no row of its own.
FirstAccepted(pop, c, k) ==
    /\ c # <<>> /\ c # JONGNO_GU
    /\ \A l \in 1..Len(pop) : pop[l].jachigu # c
    /\ RuleAccepts(c, pop[k].jachigu)
    /\ \A l \in 1..(k - 1) : ~RuleAccepts(c, pop[l].jachigu)

\* C4, amended: a crime district without a population row of its name is
\* matched to the first population row the similarity rule accepts for it,
\* and its merged row carries the population of that row, provided no
\* later crime district is matched to the same population name.
C4_RuleAcceptedNamesReconciled ==
    PassReturned =>
        LET pop == MatchedPop
            crime == crime_df_with_pop
        IN  \A i \in 1..Len(crime) : \A k \in 1..Len(pop) :
                (/\ FirstAccepted(pop, crime[i].jachigu, k)
                 /\ \A j \in (i + 1)..Len(crime) : \A l \in 1..Len(pop) :
                        (/\ crime[j].jachigu # crime[i].jachigu
                         /\ FirstAccepted(pop, crime[j].jachigu, l))
                        => pop[l].jachigu # pop[k].jachigu)
                => \E l \in 1..Len(pop) :
                       /\ pop[l].jachigu = pop[k].jachigu
                       /\ crime[i].ingu = pop[l].ingu

C4_SuffixlessPopulationNameMatched ==
    /\ PassReturned
    /\ \E i \in 1..Len(crime_df_with_pop) :
           /\ crime_df_with_pop[i].jachigu = <<UL, GU>>
           /\ crime_df_with_pop[i].ingu = FloatCell(700)
    /\ \E k \in 1..Len(pop_xls) : pop_xls[k].jachigu = <<UL>>

\* C6: a geocode call that fails for one station does not abort the pass:
\* the pass returns and has covered every station.
C6_FailedGeocodeDoesNotAbortPass ==
    op = "preprocess" =>
        (returned.kind = "return" /\ Len(queries) = Len(crime_csv))

----------------------------------------------------------------------------
(* Claims about KakaoMapSingleton                                          *)

\* Neither variable is set, in the environment or by the .env file.
NeitherKeySet ==
    /\ environ = NoKeys
    /\ dotenv = NoKeys

\* C11: when neither KAKAO_REST_API_KEY nor KAKAO_MAP_API_KEY is set,
\* process start (the router import that constructs SeoulService and
\* SeoulMethod) completes without error; the configuration error is left
\* to the first geocode attempt.
C11_MissingKeyDoesNotFailProcessStart ==
    (op = "import_router" /\ NeitherKeySet) => returned.kind = "return"

\* The constructions that returned a handle
Handles == SelectSeq(constructions, LAMBDA c : c.outcome.kind = "return")

\* C12: all handles KakaoMapSingleton() has returned are the same instance
\* holding the same API key, and the key is read from the environment at
\* most once, by the first construction.
C12_OneInstanceKeyReadOnce ==
    /\ \A i, j \in 1..Len(Handles) :
           Handles[i].outcome.value = Handles[j].outcome.value
    /\ \A i \in 1..Len(constructions) : constructions[i].read => i = 1

C12_ThreeHandlesShareKeyOfDotenv ==
    /\ Len(constructions) = 3
    /\ Len(Handles) = 3
    /\ dotenv.KAKAO_MAP_API_KEY = <<"k2">>
    /\ _instance._api_key = <<"k2">>
    /\ Handles[3].outcome.value._api_key = <<"k2">>

----------------------------------------------------------------------------
(* Claims about normalize_gu_name and str_to_float                         *)

\* C13: for every input, normalize_gu_name returns a string with no
\* leading or trailing whitespace and no leading or trailing single or
\* double quote.
C13_NormalizedNameHasNoOuterBlankOrQuote ==
    op = "normalize_gu_name" =>
        LET name_str == returned.value
        IN  \/ name_str = <<>>
            \/ /\ name_str[1] \notin {SP, DQ, SQ}
               /\ name_str[Len(name_str)] \notin {SP, DQ, SQ}

\* The text of a cell once ',' separators and surrounding blanks are gone
CellText(cell) == strip(remove(PyStr(cell), ","), Whitespace)

\* C14: str_to_float never raises; it returns the number the cell spells
\* once ',' separators are removed ('162,820' gives 162820.0), and 0.0 for
\* a missing cell or one that is not a number.
C14_StrToFloatParsesOrDefaultsToZero ==
    op = "str_to_float" =>
        /\ returned.kind = "return"
        /\ arg_val = StrCell(<<"1", "6", "2", ",", "8", "2", "0">>)
               => returned.value = FloatCell(162820)
        /\ returned.value =
               IF arg_val.t # "nan" /\ IsNumeral(CellText(arg_val))
               THEN FloatCell(FloatStrValue(CellText(arg_val)))
               ELSE FloatCell(0)

----------------------------------------------------------------------------
(* Claims about the preparation of the population table and the join      *)

\* C15: when the population spreadsheet is prepared for the join, exactly
\* its first three rows are skipped and every later row is retained, in
\* order: the cleaned table has one row for each row after the third, with
\* that row's population.  (Stated for a pass without '종로구', whose
\* population the pass overwrites.)
C15_FirstThreePopRowsSkipped ==
    (/\ PassReturned
     /\ Len(pop_xls) > 3
     /\ ~InSeq(JONGNO_GU, Names(crime_df_with_pop)))
    => /\ Len(pop_clean) = Len(pop_xls) - 3
       /\ \A i \in 1..Len(pop_clean) :
              pop_clean[i].ingu = str_to_float(pop_xls[i + 3].ingu)

\* C16: the merge is a left join on the district name: every aggregated
\* crime row is in the reconciled table, and a row whose district has no
\* population row carries the population 0.0, not a missing value, in the
\* table preprocess stores and writes.
C16_UnmatchedPopulationFilledWithZero ==
    PassReturned =>
        LET crime_df == CrimeDf(crime_csv, upstream)
        IN  /\ \A g \in 1..Len(crime_df) : \E i \in 1..Len(crime_df_with_pop) :
                   /\ crime_df_with_pop[i].jachigu = crime_df[g].jachigu
                   /\ crime_df_with_pop[i].gwanseo = crime_df[g].gwanseo
                   /\ crime_df_with_pop[i].counts = crime_df[g].counts
            /\ \A i \in 1..Len(crime_df_with_pop) :
                   ~InSeq(crime_df_with_pop[i].jachigu, Names(pop_clean))
                   => crime_df_with_pop[i].ingu = FloatCell(0)


(***************************************************************************)
(* generate_heatmap: occurrence rates, their normalization, arrest rates   *)
(*                                                                         *)
(* A rate is a float with a few decimals.  Decimal(n, places) is the       *)
(* number n / 10^places, written with as few decimals as it needs, so two  *)
(* equal numbers are one value.  Quotients are rounded from the exact      *)
(* ratio.                                                                  *)
(***************************************************************************)

MaxRateRows == 2

RECURSIVE Pow10(_)
Pow10(k) == IF k = 0 THEN 1 ELSE 10 * Pow10(k - 1)

RECURSIVE Decimal(_, _)
Decimal(n, places) ==
    IF places > 0 /\ n % 10 = 0 THEN Decimal(n \div 10, places - 1)
    ELSE [t |-> "float", n |-> n, s |-> <<>>, places |-> places]

\* a float cell of a converted column, as a rate
AsDecimal(cell) == IF cell.t = "float" THEN Decimal(cell.n, 0) ELSE cell

IsFinite(v) == v.t = "float"

RECURSIVE LongDivision(_, _, _)
\* the integer part q and the rest r of a * 10^k / b, one digit at a time
\* (b > 0): a * 10^k = q * b + r
LongDivision(a, b, k) ==
    IF k = 0 THEN [q |-> a \div b, r |-> a % b]
    ELSE LET d == LongDivision(a, b, k - 1)
         IN  [q |-> d.q * 10 + (d.r * 10) \div b, r |-> (d.r * 10) % b]

\* a * 10^k / b rounded to the nearest integer, halves to the even one:
\* what round() of numpy keeps
RoundHalfEven(a, b, k) ==
    LET d == LongDivision(a, b, k)
    IN  IF 2 * d.r < b THEN d.q
        ELSE IF 2 * d.r > b THEN d.q + 1
        ELSE IF d.q % 2 = 0 THEN d.q ELSE d.q + 1

\* the power of ten a rate is multiplied by
ScaleExponent(scale) == CASE scale = 1 -> 0 [] scale = 100 -> 2 [] scale = 100000 -> 5

Sign(v) == IF v.n > 0 THEN 1 ELSE IF v.n < 0 THEN -1 ELSE 0

\* v > 0 and v < 0 of pandas: False for NaN
Gt0(v) == v.t \in {"float", "inf"} /\ v.n > 0
Lt0(v) == v.t \in {"float", "inf"} /\ v.n < 0

notna(v) == v.t # "nan"

\* the decimals two finite values are compared or divided with
CommonPlaces(x, y) == IF x.places > y.places THEN x.places ELSE y.places

\* a finite value in units of 10^-places (places >= v.places)
Units(v, places) == v.n * Pow10(places - v.places)

\* x > y for two rates that are not NaN
Greater(x, y) ==
    IF x.t = "inf" THEN x.n > 0 /\ ~(y.t = "inf" /\ y.n > 0)
    ELSE IF y.t = "inf" THEN y.n < 0
    ELSE Units(x, CommonPlaces(x, y)) > Units(y, CommonPlaces(x, y))

\* (num / den * scale).round(places) of two float64 values, with the
\* IEEE results for zero, infinite and NaN operands
Quotient(num, den, scale, places) ==
    IF num.t = "nan" \/ den.t = "nan" THEN NaN
    ELSE IF num.t = "inf"
         THEN IF den.t = "inf" THEN NaN
              ELSE InfCell(IF den.n < 0 THEN 0 - num.n ELSE num.n)
    ELSE IF den.t = "inf" THEN Decimal(0, 0)
    ELSE IF den.n = 0
         THEN IF num.n = 0 THEN NaN ELSE InfCell(Sign(num))
    ELSE LET a == Units(num, CommonPlaces(num, den))
             b == Units(den, CommonPlaces(num, den))
             k == ScaleExponent(scale) + places
         IN  IF b > 0 THEN Decimal(RoundHalfEven(a, b, k), places)
             ELSE Decimal(RoundHalfEven(0 - a, 0 - b, k), places)

\* crime_types (line 570): murder, robbery, rape, theft, violence
crime_types == <<"salin", "gangdo", "ganggan", "jeoldo", "pokryeok">>

CrimeTypeSet == {crime_types[i] : i \in 1..Len(crime_types)}

\* the conversion of every numeric column (lines 584-595); the nested
\* str_to_float is the one of preprocess, word for word
work_df_of(table) ==
    AsTuple([i \in 1..Len(table) |->
        [jachigu |-> table[i].jachigu,
         ingu |-> AsDecimal(str_to_float(table[i].ingu)),
         balsaeng |-> [ct \in CrimeTypeSet |-> AsDecimal(str_to_float(table[i].balsaeng[ct]))],
         geomgeo |-> [ct \in CrimeTypeSet |-> AsDecimal(str_to_float(table[i].geomgeo[ct]))]]])

\* one cell of the occurrence rate column (lines 603-608)
occurrence_rate(occ, pop) ==
    LET mask == Gt0(pop) /\ notna(pop)
    IN  IF mask THEN Quotient(occ, pop, 100000, 1) ELSE Decimal(0, 0)

\* the same computation without the occurrence mask
arrest_rate_unguarded(arr, occ) == Quotient(arr, occ, 100, 1)

\* one cell of the arrest rate column (lines 644-648)
arrest_rate(arr, occ) ==
    LET mask == Gt0(occ)
    IN  IF mask THEN Quotient(arr, occ, 100, 1) ELSE Decimal(0, 0)

\* the values of a column that are not NaN
Present(col) == SelectSeq(col, notna)

RECURSIVE MaxPlaces(_)
MaxPlaces(col) ==
    IF Len(col) = 0 THEN 0
    ELSE LET rest == MaxPlaces(Tail(col))
         IN  IF IsFinite(col[1]) /\ col[1].places > rest THEN col[1].places ELSE rest

RECURSIVE SumAt(_, _)
\* the sum of the finite values of a column, in units of 10^-places
SumAt(col, places) ==
    IF Len(col) = 0 THEN 0
    ELSE SumAt(Tail(col), places)
         + (IF IsFinite(col[1]) THEN col[1].n * Pow10(places - col[1].places) ELSE 0)

\* Series.mean().round(4): the mean of the values that are not NaN, an
\* infinity when there is one
MeanOf(col) ==
    LET present == Present(col)
        infinite == SelectSeq(present, LAMBDA v : v.t = "inf")
        places == MaxPlaces(present)
    IN  IF Len(present) = 0 THEN NaN
        ELSE IF Len(infinite) > 0 THEN infinite[1]
        ELSE Quotient(Decimal(SumAt(present, places), places), Decimal(Len(present), 0), 1, 4)

\* the mean of a column where its maximum is asked for
ColumnMean(col) == MeanOf(col)

RECURSIVE ColumnMax(_)
\* Series.max(): the largest value that is not NaN, NaN when there is none
ColumnMax(col) ==
    IF Len(col) = 0 THEN NaN
    ELSE LET rest == ColumnMax(Tail(col))
             x == col[1]
         IN  IF x.t = "nan" THEN rest
             ELSE IF rest.t = "nan" THEN x
             ELSE IF Greater(x, rest) THEN x ELSE rest

\* col.loc[col < 0] = 0.0
ClampNegative(col) == AsTuple([i \in 1..Len(col) |-> IF Lt0(col[i]) THEN Decimal(0, 0) ELSE col[i]])

\* col.loc[col > 1] = 1.0
ClampAboveOne(col) ==
    AsTuple([i \in 1..Len(col) |->
        IF notna(col[i]) /\ Greater(col[i], Decimal(1, 0)) THEN Decimal(1, 0) ELSE col[i]])

\* the same normalization that divides whatever the maximum is
normalize_unguarded(col) ==
    LET clamped == ClampNegative(col)
        max_value == ColumnMax(clamped)
    IN  ClampAboveOne(ClampNegative(
            AsTuple([i \in 1..Len(col) |-> Quotient(clamped[i], max_value, 1, 4)])))

\* the normalization of one crime type's column (lines 622-636)
normalize(col) ==
    LET clamped == ClampNegative(col)
        max_value == ColumnMax(clamped)
    IN  IF Gt0(max_value)
        THEN ClampAboveOne(ClampNegative(
                 AsTuple([i \in 1..Len(col) |-> Quotient(clamped[i], max_value, 1, 4)])))
        ELSE AsTuple([i \in 1..Len(col) |-> Decimal(0, 0)])

\* the three tables generate_heatmap draws, one column per crime type
\* (lines 597-652)
generate_heatmap(table) ==
    LET work_df == work_df_of(table)
        rows == 1..Len(work_df)
        rate_df == [ct \in CrimeTypeSet |->
                       AsTuple([i \in rows |-> occurrence_rate(work_df[i].balsaeng[ct], work_df[i].ingu)])]
        arrest_df == [ct \in CrimeTypeSet |->
                         AsTuple([i \in rows |-> arrest_rate(work_df[i].geomgeo[ct], work_df[i].balsaeng[ct])])]
    IN  [index |-> AsTuple([i \in rows |-> work_df[i].jachigu]),
         work_df |-> work_df,
         rate_df |-> rate_df,
         rate_df_normalized |-> [ct \in CrimeTypeSet |-> normalize(rate_df[ct])],
         arrest_df |-> arrest_df]

\* Series.fillna(0.0)
fillna(col) == AsTuple([i \in 1..Len(col) |-> IF notna(col[i]) THEN col[i] ELSE Decimal(0, 0)])

\* rate_df of generate_crime_rate_map for a crime_df that has the
\* population column (lines 792-808, 856-967): the rate columns are
\* normalized in place, the total is the mean of the five normalized ones
generate_crime_rate_map(table) ==
    LET merged_df == work_df_of(table)
        rows == 1..Len(merged_df)
        rates == [ct \in CrimeTypeSet |->
                     AsTuple([i \in rows |-> occurrence_rate(merged_df[i].balsaeng[ct], merged_df[i].ingu)])]
        rate_df == [ct \in CrimeTypeSet |-> normalize(rates[ct])]
        arrest_rate_df == [ct \in CrimeTypeSet |->
                              AsTuple([i \in rows |-> arrest_rate(merged_df[i].geomgeo[ct], merged_df[i].balsaeng[ct])])]
    IN  [index |-> AsTuple([i \in rows |-> merged_df[i].jachigu]),
         work_df |-> merged_df,
         rate_df |-> rate_df,
         total |-> AsTuple([i \in rows |->
                       MeanOf(AsTuple([k \in 1..Len(crime_types) |-> rate_df[crime_types[k]][i]]))]),
         arrest_df |-> [ct \in CrimeTypeSet |-> fillna(arrest_rate_df[ct])]]


----------------------------------------------------------------------------
(* Inputs of generate_heatmap and of the normalization                     *)

\* the district of row i: the merged table has one row per district
DistrictOfRow(i) == AsTuple([k \in 1..i |-> GA]) \o <<GU>>

\* one cell per crime type, in the order of crime_types
PerCrimeType(cells) ==
    [ct \in CrimeTypeSet |-> cells[CHOOSE i \in 1..Len(crime_types) : crime_types[i] = ct]]

\* occurrence counts of a row: whole numbers, a count written with a
\* comma, and the cells a crime.csv can hold that are no count
OccurProfiles ==
    {PerCrimeType(<<FloatCell(0), FloatCell(1), FloatCell(3),
                    StrCell(<<"1", ",", "2", "3", "4">>), FloatCell(7)>>),
     PerCrimeType(<<FloatCell(0), FloatCell(2), FloatCell(0), FloatCell(617), StrCell(<<GA>>)>>),
     PerCrimeType(<<NaN, InfCell(1), FloatCell(-1), FloatCell(0), FloatCell(2)>>)}

\* arrest counts of a row
ArrestProfiles ==
    {PerCrimeType(<<FloatCell(0), FloatCell(1), FloatCell(1), FloatCell(617), FloatCell(7)>>),
     PerCrimeType(<<FloatCell(1), FloatCell(0), FloatCell(2), FloatCell(5), FloatCell(9)>>)}

\* populations: none after the left merge (NaN), zero and ordinary ones
InguPool == {NaN, FloatCell(0), FloatCell(70000), FloatCell(162820)}

\* what a row holds beside its district
RateRowPool == [ingu : InguPool, balsaeng : OccurProfiles, geomgeo : ArrestProfiles]

\* the table whose row i is district i with the cells of cells[i]
RateTable(cells) ==
    AsTuple([i \in 1..Len(cells) |->
        [jachigu |-> DistrictOfRow(i), ingu |-> cells[i].ingu,
         balsaeng |-> cells[i].balsaeng, geomgeo |-> cells[i].geomgeo]])

InitRates ==
    /\ op = "idle"
    /\ ServiceConstructed
    /\ station_name = <<>>
    /\ valid_districts = {}
    /\ upstream = <<>>
    /\ queries = <<>>
    /\ returned = Return(None)
    /\ crime_csv = NoTable
    /\ pop_xls = NoTable
    /\ crime_df_with_pop = NoTable
    /\ pop_clean = NoTable
    /\ \E k \in 1..MaxRateRows : \E cells \in [1..k -> RateRowPool] : df = RateTable(cells)
    /\ arg_name = None
    /\ arg_val = None
    /\ rate_column = <<>>
    /\ DataFilesInPlace
    /\ OtherServicesIdle

\* generate_heatmap(df, save_path), up to the three tables it draws
GenerateHeatmap ==
    /\ op = "idle"
    /\ op' = "generate_heatmap"
    /\ returned' = Return(generate_heatmap(df))
    /\ UNCHANGED <<station_name, valid_districts, upstream, queries, crime_csv,
                   pop_xls, crime_df_with_pop, pop_clean, df, kakao_vars,
                   arg_name, arg_val, rate_column, disk_vars, service_vars>>

\* generate_crime_rate_map(crime_df, pop_df, save_path), up to the table the
\* map is drawn from
GenerateCrimeRateMap ==
    /\ op = "idle"
    /\ op' = "generate_crime_rate_map"
    /\ returned' = Return(generate_crime_rate_map(df))
    /\ UNCHANGED <<station_name, valid_districts, upstream, queries, crime_csv,
                   pop_xls, crime_df_with_pop, pop_clean, df, kakao_vars,
                   arg_name, arg_val, rate_column, disk_vars, service_vars>>

NextRates == GenerateHeatmap \/ GenerateCrimeRateMap

SpecRates == InitRates /\ [][NextRates]_vars

MaxColumnLen == 3

\* rates of a column: zero, whole and fractional ones, a negative one, one
\* with five decimals, NaN and an infinite one
RatePool ==
    {Decimal(0, 0), Decimal(1, 0), Decimal(3, 0), Decimal(5, 1), Decimal(3333, 4),
     Decimal(33333, 5), Decimal(-15, 1), Decimal(1429, 1), NaN, InfCell(1)}

RateColumns == UNION {[1..k -> RatePool] : k \in 1..MaxColumnLen}

InitRateNormalizer ==
    /\ NothingElse
    /\ arg_name = None
    /\ arg_val = None
    /\ rate_column \in RateColumns
    /\ DataFilesInPlace
    /\ OtherServicesIdle

\* the normalization applied to a column of rates
Normalize ==
    /\ op = "idle"
    /\ op' = "normalize"
    /\ returned' = Return(normalize(rate_column))
    /\ UNCHANGED <<station_name, valid_districts, upstream, queries, crime_csv,
                   pop_xls, crime_df_with_pop, pop_clean, df, kakao_vars,
                   arg_name, arg_val, rate_column, disk_vars, service_vars>>

\* the normalization applied to the column it returned
NormalizeAgain ==
    /\ op = "normalize"
    /\ op' = "normalize_again"
    /\ rate_column' = returned.value
    /\ returned' = Return(normalize(returned.value))
    /\ UNCHANGED <<station_name, valid_districts, upstream, queries, crime_csv,
                   pop_xls, crime_df_with_pop, pop_clean, df, kakao_vars,
                   arg_name, arg_val, disk_vars, service_vars>>

NextRateNormalizer == Normalize \/ NormalizeAgain

SpecRateNormalizer == InitRateNormalizer /\ [][NextRateNormalizer]_vars


----------------------------------------------------------------------------
(* Claims on the rates                                                     *)

Abs(x) == IF x < 0 THEN 0 - x ELSE x

\* v is num / den * scale exactly (den not 0)
ExactRatio(v, num, den, scale) ==
    v.n * Units(den, CommonPlaces(num, den))
        = Units(num, CommonPlaces(num, den)) * scale * Pow10(v.places)

\* v has at most `places` decimals and is one of the nearest such numbers
\* to num / den * scale (den not 0)
RoundedRatio(v, num, den, scale, places) ==
    LET a == Units(num, CommonPlaces(num, den))
        b == Units(den, CommonPlaces(num, den))
    IN  /\ v.places <= places
        /\ 2 * Abs(Units(v, places) * b - a * scale * Pow10(places)) <= Abs(b)

Zero == Decimal(0, 0)

\* the rows of the table generate_heatmap was given
HeatmapRows == 1..Len(df)

C18_ArrestRateExactQuotient ==
    op = "generate_heatmap" =>
        LET out == returned.value
        IN  \A i \in HeatmapRows, ct \in CrimeTypeSet :
                LET rate == out.arrest_df[ct][i]
                    occ == out.work_df[i].balsaeng[ct]
                    arr == out.work_df[i].geomgeo[ct]
                IN  (IsFinite(occ) /\ IsFinite(arr)) =>
                        /\ IsFinite(rate)
                        /\ occ.n = 0 => rate = Zero
                        /\ occ.n # 0 => ExactRatio(rate, arr, occ, 100)

\* C18 (amended): after generate_heatmap, for every row and crime type with
\* finite counts the arrest rate is 0 when the occurrence count is not
\* positive, and otherwise arrests / occurrences * 100 rounded to one
\* decimal.
C18_ArrestRateRoundedToOneDecimal ==
    op = "generate_heatmap" =>
        LET out == returned.value
        IN  \A i \in HeatmapRows, ct \in CrimeTypeSet :
                LET rate == out.arrest_df[ct][i]
                    occ == out.work_df[i].balsaeng[ct]
                    arr == out.work_df[i].geomgeo[ct]
                IN  (IsFinite(occ) /\ IsFinite(arr)) =>
                        /\ IsFinite(rate)
                        /\ occ.n <= 0 => rate = Zero
                        /\ occ.n > 0 => RoundedRatio(rate, arr, occ, 100, 1)

\* A table was drawn where one arrest rate is a rounded third (1 of 3:
\* 33.3), one is 0 for arrests without occurrences, and one is 0 for a
\* negative occurrence count.
C18_RoundedAndGuardedArrestRates ==
    /\ op = "generate_heatmap"
    /\ LET out == returned.value
       IN  /\ \E i \in HeatmapRows, ct \in CrimeTypeSet :
                  /\ out.work_df[i].balsaeng[ct] = Decimal(3, 0)
                  /\ out.work_df[i].geomgeo[ct] = Decimal(1, 0)
                  /\ out.arrest_df[ct][i] = Decimal(333, 1)
           /\ \E i \in HeatmapRows, ct \in CrimeTypeSet :
                  /\ out.work_df[i].balsaeng[ct] = Zero
                  /\ out.work_df[i].geomgeo[ct] = Decimal(5, 0)
                  /\ out.arrest_df[ct][i] = Zero
           /\ \E i \in HeatmapRows, ct \in CrimeTypeSet :
                  /\ out.work_df[i].balsaeng[ct] = Decimal(-1, 0)
                  /\ out.work_df[i].geomgeo[ct] = Decimal(2, 0)
                  /\ out.arrest_df[ct][i] = Zero


FiniteColumn(col) == \A i \in 1..Len(col) : IsFinite(col[i])

\* m is the largest value of a finite column
IsMaxOf(m, col) ==
    /\ \E i \in 1..Len(col) : col[i] = m
    /\ \A i \in 1..Len(col) : ~Greater(col[i], m)

\* a finite value between 0 and 1
InUnitInterval(v) == IsFinite(v) /\ v.n >= 0 /\ v.n <= Pow10(v.places)

\* C19 as stated: after generate_heatmap, for every crime type whose rates
\* are finite, every normalized value lies in [0,1]; if the largest rate is
\* greater than 0 each normalized value is exactly its rate divided by that
\* maximum; if every rate is 0 every normalized value is 0.
C19_NormalizedIsRateOverMaximum ==
    op = "generate_heatmap" =>
        LET out == returned.value
        IN  \A ct \in CrimeTypeSet :
                LET rates == out.rate_df[ct]
                    norm == out.rate_df_normalized[ct]
                IN  FiniteColumn(rates) =>
                        /\ \A i \in HeatmapRows : InUnitInterval(norm[i])
                        /\ \A m \in {rates[i] : i \in HeatmapRows} :
                               (IsMaxOf(m, rates) /\ m.n > 0) =>
                                   \A i \in HeatmapRows : ExactRatio(norm[i], rates[i], m, 1)
                        /\ (\A i \in HeatmapRows : rates[i] = Zero) =>
                               \A i \in HeatmapRows : norm[i] = Zero

\* C19 (amended): after generate_heatmap, for every crime type whose rates
\* are finite, every normalized value lies in [0,1] and has at most four
\* decimals; if the largest rate is greater than 0, the normalized value of
\* a negative rate is 0 and every other one is its rate divided by that
\* maximum, rounded to four decimals; if no rate is greater than 0 every
\* normalized value is 0.
C19_NormalizedIsClampedRateOverMaximumRounded ==
    op = "generate_heatmap" =>
        LET out == returned.value
        IN  \A ct \in CrimeTypeSet :
                LET rates == out.rate_df[ct]
                    norm == out.rate_df_normalized[ct]
                IN  FiniteColumn(rates) =>
                        /\ \A i \in HeatmapRows : InUnitInterval(norm[i]) /\ norm[i].places <= 4
                        /\ \A m \in {rates[i] : i \in HeatmapRows} :
                               (IsMaxOf(m, rates) /\ m.n > 0) =>
                                   \A i \in HeatmapRows :
                                       IF rates[i].n < 0 THEN norm[i] = Zero
                                       ELSE RoundedRatio(norm[i], rates[i], m, 1, 4)
                        /\ (\A i \in HeatmapRows : rates[i].n <= 0) =>
                               \A i \in HeatmapRows : norm[i] = Zero

\* A table was drawn where one crime type has a rate that is not a
\* four-decimal multiple of the maximum (2.9 of 4.3: 0.6744), one has a
\* negative rate beside a positive one (normalized to 0 and 1), and one has
\* only zero rates (normalized to zeros).
C19_RoundedClampedAndAllZeroColumns ==
    /\ op = "generate_heatmap"
    /\ LET out == returned.value
       IN  /\ \E ct \in CrimeTypeSet :
                  /\ out.rate_df[ct] = <<Decimal(43, 1), Decimal(29, 1)>>
                  /\ out.rate_df_normalized[ct] = <<Decimal(1, 0), Decimal(6744, 4)>>
           /\ \E ct \in CrimeTypeSet :
                  /\ out.rate_df[ct] = <<Decimal(18, 1), Decimal(-14, 1)>>
                  /\ out.rate_df_normalized[ct] = <<Decimal(1, 0), Zero>>
           /\ \E ct \in CrimeTypeSet :
                  /\ out.rate_df[ct] = <<Zero, Zero>>
                  /\ out.rate_df_normalized[ct] = <<Zero, Zero>>


One == Decimal(1, 0)

\* the largest value of the column is 1
MaximumIsOne(col) ==
    /\ \E i \in 1..Len(col) : col[i] = One
    /\ \A i \in 1..Len(col) : notna(col[i]) => ~Greater(col[i], One)

\* a column in the form the normalization gives: every value that is not
\* NaN lies in [0,1] and has at most four decimals, and the largest is 1
AlreadyNormalized(col) ==
    /\ MaximumIsOne(col)
    /\ \A i \in 1..Len(col) : notna(col[i]) => (InUnitInterval(col[i]) /\ col[i].places <= 4)

\* C20: the normalization applied to a column it returned whose maximum is
\* 1, or to any column already in that form, returns the same column.
C20_NormalizationIdempotent ==
    /\ (op = "normalize_again" /\ MaximumIsOne(rate_column)) => returned.value = rate_column
    /\ (op = "normalize" /\ AlreadyNormalized(rate_column)) => returned.value = rate_column

\* The column <<1, 3>> was normalized to <<0.3333, 1>> and normalized
\* again, which gave <<0.3333, 1>>.
C20_NormalizedThirdNormalizedAgain ==
    /\ op = "normalize_again"
    /\ rate_column = <<Decimal(3333, 4), One>>
    /\ returned.value = <<Decimal(3333, 4), One>>


\* C21: after generate_heatmap and after generate_crime_rate_map, the rate
\* column of every crime type still holds, for every row, the per-100,000
\* occurrence rate computed from the row's count and population.
C21_AbsoluteRatesKeptAfterNormalization ==
    op \in {"generate_heatmap", "generate_crime_rate_map"} =>
        LET out == returned.value
        IN  \A i \in HeatmapRows, ct \in CrimeTypeSet :
                out.rate_df[ct][i]
                    = occurrence_rate(out.work_df[i].balsaeng[ct], out.work_df[i].ingu)


----------------------------------------------------------------------------
(* Claims on the population correction, the files and the requests         *)

\* the parsed populations of the spreadsheet's data rows whose normalized
\* name is gu
OwnPopulations(gu) ==
    LET edited == DropMetaRows(pop_xls)
    IN  {str_to_float(edited[k].ingu) :
            k \in {l \in 1..Len(edited) : normalize_gu_name(edited[l].jachigu) = gu}}

PreprocessStep == op = "idle" /\ op' = "preprocess"

\* what a pass stores and writes is as it was
StoredAndWrittenUnchanged ==
    UNCHANGED <<crime_with_gu_csv, dataset_cctv, crime_df_with_pop, pop_clean, cctv_pop_df>>

C25_SavedCsvIsThisRunsTable ==
    PassReturned => crime_with_gu_csv = crime_df_with_pop


\* every row of cctv.csv has a row of merged with its count and, in the
\* column '자치구', its district name
CctvRowsKeepDistrict(merged) ==
    /\ Len(merged) >= Len(cctv_csv)
    /\ \A i \in 1..Len(cctv_csv) :
           \E j \in 1..Len(merged) :
               /\ merged[j].sogye = cctv_csv[i].sogye
               /\ merged[j].jachigu = cctv_csv[i].gigwanmyeong

\* C30: the CCTV-population merge of preprocess and of get_cctv_pop_merged
\* keeps every row of cctv.csv, and the row still carries its district name
\* in the column '자치구', matched or not.
C30_CctvRowsKeptWithDistrictName ==
    /\ PassReturned => CctvRowsKeepDistrict(cctv_pop_df)
    /\ (op = "get_cctv_pop_merged" /\ returned.kind = "return") =>
           CctvRowsKeepDistrict(returned.value)


\* C27: once the first KakaoMapSingleton() construction has raised, every
\* later construction raises too, and no construction returns a handle
\* whose API key is unset.
C27_FailedConstructionKeepsFailing ==
    /\ (Len(constructions) > 0 /\ constructions[1].outcome.kind = "raise") =>
           \A i \in 1..Len(constructions) : constructions[i].outcome.kind = "raise"
    /\ \A i \in 1..Len(Handles) : Handles[i].outcome.value._api_key # NoAttribute


\* C28: in a pass that returns, a population row whose normalized district
\* name is empty is not renamed to a crime district, so no crime district
\* gets its population from such a row.
C28_EmptyNamedRowNeverMapped ==
    PassReturned =>
        \A i \in 1..Len(MatchedPop) :
            MatchedPop[i].jachigu = <<>> => pop_clean[i].jachigu = <<>>


----------------------------------------------------------------------------
(* TitanicService: preprocess, modeling, learning, evaluate, submit        *)

MaxCalls == 4

\* RandomForestClassifier(random_state=42, n_estimators=100), not fitted
RandomForestClassifier == [name |-> "RandomForest", fitted |-> FALSE]

\* model.fit(X_train, y_train)
fit(model) == [model EXCEPT !.fitted = TRUE]

\* a result dictionary, by its status and the step its message names
Result(status, message) == Return([status |-> status, message |-> message])

\* model.predict(X): sklearn raises NotFittedError for a model not fitted
predict(model) ==
    IF model.fitted THEN Return(<<"predictions">>) ELSE Raise("NotFittedError", <<>>)

\* hasattr(model, 'predict'): predict is a method of the class
hasattr_predict(model) == TRUE

\* the first model whose predict raises, 0 if none
FirstUnfitted(ms) ==
    LET raising == {i \in 1..Len(ms) : predict(ms[i]).kind = "raise"}
    IN  IF raising = {} THEN 0 ELSE CHOOSE i \in raising : \A j \in raising : i <= j

\* TitanicService.modeling (lines 323-373): outcome and models
modeling(dataset, labels, ms) ==
    IF dataset = None \/ labels = None
    THEN [outcome |-> Result("error", "preprocess"), models |-> ms]
    ELSE [outcome |-> Result("success", "modeling"), models |-> <<RandomForestClassifier>>]

\* TitanicService.learning (lines 375-438): outcome, models and X_test
learning(dataset, labels, ms, xt) ==
    IF dataset = None \/ labels = None
    THEN [outcome |-> Result("error", "preprocess"), models |-> ms, X_test |-> xt]
    ELSE IF ms = <<>>
    THEN [outcome |-> Result("error", "modeling"), models |-> ms, X_test |-> xt]
    ELSE [outcome |-> Result("success", "learning"),
          models |-> AsTuple([i \in 1..Len(ms) |-> fit(ms[i])]),
          X_test |-> <<"split">>]

\* TitanicService.evaluate (lines 441-499)
evaluate(ms, xt) ==
    IF ms = <<>> THEN Result("error", "modeling")
    ELSE IF xt = None THEN Result("error", "learning")
    ELSE IF FirstUnfitted(ms) > 0 THEN predict(ms[FirstUnfitted(ms)])
    ELSE Result("success", "evaluate")

\* TitanicService.submit (lines 501-605), with a writable models directory
submit(dataset, ms) ==
    IF ms = <<>> THEN Result("error", "modeling")
    ELSE IF dataset = None THEN Result("error", "preprocess")
    ELSE IF ~hasattr_predict(ms[1]) THEN Result("error", "learning")
    ELSE IF predict(ms[1]).kind = "raise" THEN predict(ms[1])
    ELSE Result("success", "submit")

\* Everything of the state that no Titanic call touches
TitanicFrame ==
    UNCHANGED <<station_name, valid_districts, upstream, queries, crime_csv, pop_xls,
                crime_df_with_pop, pop_clean, df, kakao_vars, arg_name, arg_val,
                rate_column, disk_vars, _sentiment_service, model_dir, request_pc,
                running, request_tables, responses>>

Called(name) ==
    /\ Len(calls) < MaxCalls
    /\ op' = name
    /\ calls' = Append(calls, name)

InitTitanic ==
    /\ NothingElse
    /\ arg_name = None
    /\ arg_val = None
    /\ rate_column = <<>>
    /\ DataFilesInPlace
    /\ OtherServicesIdle

\* TitanicService.preprocess() (lines 193-321), train.csv and test.csv present
TitanicPreprocess ==
    /\ Called("titanic_preprocess")
    /\ train_labels' = <<"Survived">>
    /\ processed_dataset' = <<"TitanicDataset">>
    /\ returned' = Result("success", "preprocess")
    /\ UNCHANGED <<models, X_test>>
    /\ TitanicFrame

Modeling ==
    /\ Called("modeling")
    /\ LET call == modeling(processed_dataset, train_labels, models)
       IN  /\ returned' = call.outcome
           /\ models' = call.models
    /\ UNCHANGED <<processed_dataset, train_labels, X_test>>
    /\ TitanicFrame

Learning ==
    /\ Called("learning")
    /\ LET call == learning(processed_dataset, train_labels, models, X_test)
       IN  /\ returned' = call.outcome
           /\ models' = call.models
           /\ X_test' = call.X_test
    /\ UNCHANGED <<processed_dataset, train_labels>>
    /\ TitanicFrame

Evaluate ==
    /\ Called("evaluate")
    /\ returned' = evaluate(models, X_test)
    /\ UNCHANGED <<processed_dataset, train_labels, models, X_test>>
    /\ TitanicFrame

Submit ==
    /\ Called("submit")
    /\ returned' = submit(processed_dataset, models)
    /\ UNCHANGED <<processed_dataset, train_labels, models, X_test>>
    /\ TitanicFrame

NextTitanic == TitanicPreprocess \/ Modeling \/ Learning \/ Evaluate \/ Submit

SpecTitanic == InitTitanic /\ [][NextTitanic]_vars

\* C26: evaluate and submit, called while a model initialised by modeling
\* has not been fitted by learning, return a result with status 'error'
\* that asks for learning, and do not raise.
C26_UnfittedModelGivesErrorStatus ==
    (op \in {"evaluate", "submit"} /\ \E i \in 1..Len(models) : ~models[i].fitted) =>
        /\ returned.kind = "return"
        /\ returned.value = [status |-> "error", message |-> "learning"]


----------------------------------------------------------------------------
(* The KoELECTRA sentiment service and its handlers                        *)

\* What from_pretrained(model_path, local_files_only=True) finds: the
\* tokenizer files, weights with a classification head, the base weights
ModelDirs == [tokenizer : BOOLEAN, sequence_classification : BOOLEAN, electra : BOOLEAN]

\* KoELECTRASentimentService() (lines 22-40)
KoELECTRASentimentService == [id |-> 1, is_loaded |-> FALSE]

\* load_model (lines 42-91): the service after the call and the outcome
load_model(self, dir) ==
    IF self.is_loaded THEN [outcome |-> Return(None), self |-> self]
    ELSE IF ~dir.tokenizer THEN [outcome |-> Raise("OSError", <<"tokenizer">>), self |-> self]
    ELSE IF dir.sequence_classification \/ dir.electra
    THEN [outcome |-> Return(None), self |-> [self EXCEPT !.is_loaded = TRUE]]
    ELSE [outcome |-> Raise("OSError", <<"model">>), self |-> self]

\* get_sentiment_service (lines 189-195): the module variable is assigned
\* before load_model runs
get_sentiment_service(cached, dir) ==
    IF cached = NoService
    THEN LET load == load_model(KoELECTRASentimentService, dir)
         IN  [outcome |-> IF load.outcome.kind = "raise" THEN load.outcome
                          ELSE Return(load.self),
              _sentiment_service |-> load.self]
    ELSE [outcome |-> Return(cached), _sentiment_service |-> cached]

\* analyze_sentiment (lines 93-103), for a text that is not blank
analyze_sentiment(self) ==
    IF ~self.is_loaded THEN Raise("RuntimeError", <<"load_model">>)
    ELSE Return(<<"sentiment">>)

KoELECTRAFrame ==
    UNCHANGED <<station_name, valid_districts, upstream, queries, crime_csv, pop_xls,
                crime_df_with_pop, pop_clean, df, kakao_vars, arg_name, arg_val,
                rate_column, disk_vars, processed_dataset, train_labels, models, X_test,
                model_dir, request_pc, running, request_tables, responses>>

InitKoELECTRA ==
    /\ NothingElse
    /\ arg_name = None
    /\ arg_val = None
    /\ rate_column = <<>>
    /\ DataFilesInPlace
    /\ processed_dataset = None
    /\ train_labels = None
    /\ models = <<>>
    /\ X_test = None
    /\ _sentiment_service = NoService
    /\ model_dir \in ModelDirs
    /\ calls = <<>>
    /\ request_pc = <<>>
    /\ running = 0
    /\ request_tables = <<>>
    /\ responses = <<>>

\* startup_event (main.py lines 47-59): the error of a failed load is logged
StartupEvent ==
    /\ calls = <<>>
    /\ Called("startup_event")
    /\ LET got == get_sentiment_service(_sentiment_service, model_dir)
       IN  /\ _sentiment_service' = got._sentiment_service
           /\ returned' = Return(None)
    /\ KoELECTRAFrame

\* health_check (koelectra_router.py lines 161-176)
HealthCheck ==
    /\ Called("health_check")
    /\ LET got == get_sentiment_service(_sentiment_service, model_dir)
       IN  /\ _sentiment_service' = got._sentiment_service
           /\ returned' = IF got.outcome.kind = "raise"
                          THEN Return([status |-> "unhealthy", model_loaded |-> FALSE])
                          ELSE Return([status |-> "healthy",
                                       model_loaded |-> got.outcome.value.is_loaded])
    /\ KoELECTRAFrame

\* analyze_sentiment of the router (lines 86-106): any error becomes HTTP 500
AnalyzeSentiment ==
    /\ Called("analyze_sentiment")
    /\ LET got == get_sentiment_service(_sentiment_service, model_dir)
           result == IF got.outcome.kind = "raise" THEN got.outcome
                     ELSE analyze_sentiment(got.outcome.value)
       IN  /\ _sentiment_service' = got._sentiment_service
           /\ returned' = IF result.kind = "raise"
                          THEN Raise("HTTPException", <<result.exc>>)
                          ELSE result
    /\ KoELECTRAFrame

NextKoELECTRA == StartupEvent \/ HealthCheck \/ AnalyzeSentiment

SpecKoELECTRA == InitKoELECTRA /\ [][NextKoELECTRA]_vars

\* C29: the service get_sentiment_service caches and hands out has its
\* model loaded, whatever calls were made and whichever of them failed to
\* load, so a health check answering 'healthy' reports a loaded model.
C29_CachedServiceIsLoaded ==
    /\ _sentiment_service # NoService => _sentiment_service.is_loaded
    /\ (op = "health_check" /\ returned.value.status = "healthy") =>
           returned.value.model_loaded


----------------------------------------------------------------------------
(* Requests to /ml/map on the one SeoulService of the router               *)

MaxRequests == 2

Requests == 1..MaxRequests

\* the count column of crime type ct in the reconciled table
CountColumn(ct, kind) ==
    CASE ct = "salin" -> IF kind = "balsaeng" THEN "salin_balsaeng" ELSE "salin_geomgeo"
      [] ct = "gangdo" -> IF kind = "balsaeng" THEN "gangdo_balsaeng" ELSE "gangdo_geomgeo"
      [] ct = "ganggan" -> IF kind = "balsaeng" THEN "gangan_balsaeng" ELSE "gangan_geomgeo"
      [] ct = "jeoldo" -> IF kind = "balsaeng" THEN "jeoldo_balsaeng" ELSE "jeoldo_geomgeo"
      [] OTHER -> IF kind = "balsaeng" THEN "pokryeok_balsaeng" ELSE "pokryeok_geomgeo"

\* crime_df[crime_cols] (seoul_service.py lines 793-796): the district, the
\* '발생' and '검거' columns and the population of the reconciled table
crime_cols(crime_df) ==
    AsTuple([i \in 1..Len(crime_df) |->
        [jachigu |-> crime_df[i].jachigu, ingu |-> crime_df[i].ingu,
         balsaeng |-> [ct \in CrimeTypeSet |-> crime_df[i].counts[CountColumn(ct, "balsaeng")]],
         geomgeo |-> [ct \in CrimeTypeSet |-> crime_df[i].counts[CountColumn(ct, "geomgeo")]]]])

\* HTMLResponse(content=html_str) for the tables handed to the map
HTMLResponse(crime_df) == Return(generate_crime_rate_map(crime_cols(crime_df)))

\* raise HTTPException(status_code=500, ...)
HTTPException500(e) == Raise("HTTPException", <<e.exc>>)

\* a handler that gives up the event loop after seoul_service.preprocess()
releases_loop(r) == 0

\* get_crime_rate_map is `async def` and awaits nothing: once request r has
\* started, the event loop stays with it until its response is built
keeps_loop(r) == r

\* the versions of pop.xls the data directory holds over time
PopVersions ==
    {<<PopRow(<<GA, GU>>, StrCell(<<"1", ",", "2", "3", "4">>))>>,
     <<PopRow(<<SP, GA, GU>>, IntCell(500))>>,
     <<PopRow(JONGNO_GU, IntCell(999)), PopRow(<<GA, GU>>, FloatCell(70000))>>}

RequestsFrame ==
    UNCHANGED <<station_name, valid_districts, upstream, crime_csv, df, dotenv,
                arg_name, arg_val, rate_column, cctv_csv, files, save_writable,
                processed_dataset, train_labels, models, X_test, _sentiment_service,
                model_dir, calls>>

InitRequests ==
    /\ op = "idle"
    /\ ServiceConstructed
    /\ \E cases \in TablesFromTo({c \in StationCasePool :
                                     /\ c.counts = SmallCounts
                                     /\ c.response.status_code = 200}, 1, 1) :
           /\ crime_csv = [i \in 1..Len(cases) |->
                              [gwanseo |-> cases[i].gwanseo, counts |-> cases[i].counts]]
           /\ upstream = [i \in 1..Len(cases) |-> cases[i].response]
    /\ pop_xls \in PopVersions
    /\ valid_districts = {<<GA, GU>>, <<SEO, GA, GU>>, JONGNO_GU}
    /\ station_name = <<>>
    /\ queries = <<>>
    /\ returned = Return(None)
    /\ crime_df_with_pop = NoTable
    /\ pop_clean = NoTable
    /\ df = NoTable
    /\ arg_name = None
    /\ arg_val = None
    /\ rate_column = <<>>
    /\ DataFilesInPlace
    /\ processed_dataset = None
    /\ train_labels = None
    /\ models = <<>>
    /\ X_test = None
    /\ _sentiment_service = NoService
    /\ model_dir = <<>>
    /\ calls = <<>>
    /\ request_pc = [r \in Requests |-> "received"]
    /\ running = 0
    /\ request_tables = [r \in Requests |-> NoTable]
    /\ responses = [r \in Requests |-> Return(None)]

\* get_crime_rate_map, line 133: seoul_service.preprocess()
MapPreprocess(r) ==
    /\ request_pc[r] = "received"
    /\ running = 0
    /\ op' = "get_crime_rate_map"
    /\ \E run \in {preprocess_files(files, crime_csv, pop_xls, upstream)} :
           /\ PreprocessRan(run)
           /\ IF run.outcome.kind = "raise"
              THEN /\ request_pc' = [request_pc EXCEPT ![r] = "done"]
                   /\ responses' = [responses EXCEPT ![r] = HTTPException500(run.outcome)]
                   /\ returned' = HTTPException500(run.outcome)
                   /\ running' = 0
                   /\ UNCHANGED request_tables
              ELSE /\ request_pc' = [request_pc EXCEPT ![r] = "preprocessed"]
                   /\ request_tables' = [request_tables EXCEPT ![r] = run.crime]
                   /\ running' = keeps_loop(r)
                   /\ UNCHANGED <<responses, returned>>
    /\ UNCHANGED pop_xls
    /\ RequestsFrame

\* get_crime_rate_map, lines 136-147: the stored tables are read from the
\* dataset and the map is generated from them
MapGenerate(r) ==
    /\ request_pc[r] = "preprocessed"
    /\ running \in {0, r}
    /\ op' = "get_crime_rate_map"
    /\ request_pc' = [request_pc EXCEPT ![r] = "done"]
    /\ \E html \in {HTMLResponse(crime_df_with_pop)} :
           /\ responses' = [responses EXCEPT ![r] = html]
           /\ returned' = html
    /\ running' = 0
    /\ UNCHANGED <<queries, crime_df_with_pop, pop_clean, pop_xls, kakao_vars,
                   crime_with_gu_csv, dataset_cctv, cctv_pop_df, request_tables>>
    /\ RequestsFrame

\* pop.xls is replaced by another version in the data directory
PopXlsReplaced ==
    /\ \E version \in PopVersions \ {pop_xls} : pop_xls' = version
    /\ UNCHANGED <<op, queries, returned, crime_df_with_pop, pop_clean, kakao_vars,
                   crime_with_gu_csv, dataset_cctv, cctv_pop_df, request_pc, running,
                   request_tables, responses>>
    /\ RequestsFrame

NextRequests ==
    \/ \E r \in Requests : MapPreprocess(r)
    \/ \E r \in Requests : MapGenerate(r)
    \/ PopXlsReplaced

SpecRequests == InitRequests /\ [][NextRequests]_vars

====
